---- MODULE Spec2Model ----
(***************************************************************************)
(* A model of the go-org parse session: the error collector (error.go),    *)
(* the Document entry points Parse / Write, the line tokenizer and the     *)
(* block parser (document.go, list.go, footnote.go) and the inline parser  *)
(* (inline.go).                                                            *)
(*                                                                         *)
(* Texts are TLA+ strings; a byte of a text is a string of length one.     *)
(* Indices are 0-based as in the Go source: Char(s, i) is s[i] and         *)
(* Slice(s, a, b) is s[a:b].                                               *)
(***************************************************************************)
EXTENDS Integers, Sequences, FiniteSets, TLC

VARIABLES
  d,        \* the Document of the session: under construction, then returned
  pc,       \* where the session is: "idle", "tokenize", "parse", "returned"
  input,    \* the lines the scanner has not read yet
  lineNum,  \* tokenize's line counter
  scanned,  \* history: the lines the scanner has read, in order
  i,        \* the token index of the top-level parseMany loop
  nodes,    \* the nodes the top-level parseMany loop has collected
  steps,    \* history: <<index, consumed, node>> of every top-level parseOne call
  ret,      \* what the last Parse call returned: "none", "doc" or "nil"
  panicked, \* history: the last Parse call was ended by its recover guard
  prior,    \* history: the Document the caller held when Parse was called
  wr,       \* the outcome of the last Write call
  op,       \* history: the last entry-point call and its arguments
  calls,    \* history: the number of entry-point calls made so far
  fed,      \* history: the number of lines handed to Parse so far
  itext,    \* inline parser: the text handed to the inline parser
  icfg,     \* inline parser: the Configuration in force
  iout,     \* inline parser: what parseInlineWithPos returned
  emph,     \* inline parser: the last parseEmphasisWithPos call and its result
  scan      \* inline parser: the loop of parseInlineWithPos, turn by turn

docVars == <<d, pc, input, lineNum, scanned, i, nodes, steps, ret, panicked, prior, wr, op,
             calls, fed>>
inlVars == <<itext, icfg, iout, emph, scan>>
vars == <<d, pc, input, lineNum, scanned, i, nodes, steps, ret, panicked, prior, wr, op,
          calls, fed, itext, icfg, iout, emph, scan>>

-----------------------------------------------------------------------------
(* Bounds of the model.                                                    *)

\* most lines handed to Parse in one behaviour (all documents up to this
\* length are tried; ExtraDocs adds some longer ones)
MaxLines == 2
\* most entry-point calls (Parse, AddError, AddFatalError, Write) in one behaviour
MaxCalls == 2
\* longest enumerated inline text, in bytes
MaxTextLen == 5

-----------------------------------------------------------------------------
(* Bytes and strings.                                                      *)

Char(s, k) == SubSeq(s, k + 1, k + 1)
Slice(s, a, b) == SubSeq(s, a + 1, b)
SliceFrom(s, a) == SubSeq(s, a + 1, Len(s))

\* Stands for a byte that is no valid UTF-8 encoding (0xff, say): the rune
\* decoders of unicode/utf8 answer RuneError for it, as for the empty string.
Bad == "%"

\* utf8.RuneError as a rune value; no byte of a text equals it.
RuneError == "RuneError"

\* unicode.IsSpace on the runes the model uses.
IsSpace(r) == r \in {" ", "\t", "\n"}

Letters ==
  {"a", "b", "c", "d", "e", "f", "g", "h", "i", "j", "k", "l", "m", "n", "o", "p", "q",
   "r", "s", "t", "u", "v", "w", "x", "y", "z", "H", "X"}
Digits == {"1", "2"}
IsLetter(r) == r \in Letters
IsDigit(r) == r \in Digits

\* strings.ContainsRune(chars, r)
ContainsRune(chars, r) == \E k \in 0 .. (Len(chars) - 1) : Char(chars, k) = r

\* strings.Repeat(" ", n)
RECURSIVE Spaces(_)
Spaces(n) == IF n <= 0 THEN "" ELSE " " \o Spaces(n - 1)

\* strings.Index(s, sub), -1 when absent
RECURSIVE IndexFrom(_, _, _)
IndexFrom(s, sub, k) ==
  IF k + Len(sub) > Len(s) THEN -1
  ELSE IF Slice(s, k, k + Len(sub)) = sub THEN k
  ELSE IndexFrom(s, sub, k + 1)

Index(s, sub) == IndexFrom(s, sub, 0)

\* the first index >= k whose byte is not whitespace (the end of a \s* run)
RECURSIVE SkipSpace(_, _)
SkipSpace(s, k) ==
  IF k < Len(s) /\ IsSpace(Char(s, k)) THEN SkipSpace(s, k + 1) ELSE k

\* the first index >= k whose byte is not in set
RECURSIVE SkipSet(_, _, _)
SkipSet(s, k, set) ==
  IF k < Len(s) /\ Char(s, k) \in set THEN SkipSet(s, k + 1, set) ELSE k

\* the regexp class \w
WordChars == Letters \cup Digits \cup {"_"}

HasPrefix(s, p) == Len(s) >= Len(p) /\ Slice(s, 0, Len(p)) = p

HasSuffix(s, p) == Len(s) >= Len(p) /\ SliceFrom(s, Len(s) - Len(p)) = p

\* the first index >= k that holds a newline, len(s) when there is none:
\* where a run of the regexp atom . ends
RECURSIVE LineEndFrom(_, _)
LineEndFrom(s, k) ==
  IF k < Len(s) /\ Char(s, k) # "\n" THEN LineEndFrom(s, k + 1) ELSE k

\* strings.Split(s, sep) for a separator of one byte
RECURSIVE Split(_, _)
Split(s, sep) ==
  LET k == Index(s, sep)
  IN IF k = -1 THEN <<s>> ELSE <<Slice(s, 0, k)>> \o Split(SliceFrom(s, k + 1), sep)

\* the first index >= k whose byte is whitespace, len(s) when there is none
RECURSIVE SkipNonSpace(_, _)
SkipNonSpace(s, k) ==
  IF k < Len(s) /\ ~IsSpace(Char(s, k)) THEN SkipNonSpace(s, k + 1) ELSE k

\* strings.Fields(s)
RECURSIVE Fields(_)
Fields(s) ==
  LET b == SkipSpace(s, 0)
      e == SkipNonSpace(s, b)
  IN IF b >= Len(s) THEN <<>> ELSE <<Slice(s, b, e)>> \o Fields(SliceFrom(s, e))

\* Regexp.FindStringSubmatch of a pattern that is not anchored: the match
\* at the leftmost offset where the pattern matches, nil (<<>>) when it
\* matches nowhere. At(s, o) is the match of the pattern at offset o.
LeftmostMatch(At(_, _), s) ==
  LET os == {o \in 0 .. (Len(s) - 1) : At(s, o) # <<>>}
  IN IF os = {} THEN <<>>
     ELSE At(s, CHOOSE o \in os : \A y \in os : o <= y)

-----------------------------------------------------------------------------
(* Positions and inline nodes (inline.go).                                 *)

Position(sl, sc, el, ec) ==
  [StartLine |-> sl, StartColumn |-> sc, EndLine |-> el, EndColumn |-> ec]

ZeroPos == Position(0, 0, 0, 0)

RECURSIVE calcPosLoop(_, _, _, _, _)
calcPosLoop(inp, k, charOffset, line, col) ==
  IF k < charOffset /\ k < Len(inp)
  THEN IF Char(inp, k) = "\n"
       THEN calcPosLoop(inp, k + 1, charOffset, line + 1, 1)
       ELSE calcPosLoop(inp, k + 1, charOffset, line, col + 1)
  ELSE Position(line, col, line, col)

calculatePosition(inp, startLine, startColumn, charOffset) ==
  calcPosLoop(inp, 0, charOffset, startLine, startColumn)

positionFromChars(inp, startLine, startColumn, startOffset, endOffset) ==
  LET start == calculatePosition(inp, startLine, startColumn, startOffset)
      end == calculatePosition(inp, startLine, startColumn, endOffset)
  IN Position(start.StartLine, start.StartColumn, end.StartLine, end.StartColumn)

NilNode == [type |-> "nil"]

Text(content, isRaw, pos) ==
  [type |-> "Text", Content |-> content, IsRaw |-> isRaw, Pos |-> pos]

LineBreak(count, pos) == [type |-> "LineBreak", Count |-> count, Pos |-> pos]

Emphasis(kind, content, pos) ==
  [type |-> "Emphasis", Kind |-> kind, Content |-> content, Pos |-> pos]

RegularLink(protocol, description, url, autoLink, pos) ==
  [type |-> "RegularLink", Protocol |-> protocol, Description |-> description,
   URL |-> url, AutoLink |-> autoLink, Pos |-> pos]

Macro(name, parameters, pos) ==
  [type |-> "Macro", Name |-> name, Parameters |-> parameters, Pos |-> pos]

ExplicitLineBreak(pos) == [type |-> "ExplicitLineBreak", Pos |-> pos]

LatexFragment(openingPair, closingPair, content, pos) ==
  [type |-> "LatexFragment", OpeningPair |-> openingPair, ClosingPair |-> closingPair,
   Content |-> content, Pos |-> pos]

InlineBlock(name, parameters, children, pos) ==
  [type |-> "InlineBlock", Name |-> name, Parameters |-> parameters,
   Children |-> children, Pos |-> pos]

\* what a sub-scanner returns
Scan(rewind, consumed, node) == [rewind |-> rewind, consumed |-> consumed, node |-> node]

NoMatch == Scan(0, 0, NilNode)


-----------------------------------------------------------------------------
(* The inline parser (inline.go). cfg is the Configuration the Document    *)
(* embeds: MaxEmphasisNewLines and AutoLink.                               *)

Configuration(maxNewLines, autoLink) ==
  [MaxEmphasisNewLines |-> maxNewLines, AutoLink |-> autoLink]

\* New(): the default configuration
DefaultMaxEmphasisNewLines == 1
New == Configuration(DefaultMaxEmphasisNewLines, TRUE)

\* utf8.DecodeLastRuneInString / utf8.DecodeRuneInString on a string of the
\* model: RuneError for the empty string and for an invalid byte.
DecodeRune(s) ==
  IF s = "" \/ Char(s, 0) = Bad THEN RuneError ELSE Char(s, 0)

DecodeLastRune(s) ==
  IF s = "" \/ Char(s, Len(s) - 1) = Bad THEN RuneError ELSE Char(s, Len(s) - 1)

\* the width DecodeRuneInString reports: 0 for the empty string, else one byte
RuneLen(s) == IF s = "" THEN 0 ELSE 1

prevRune(inp, k) == DecodeLastRune(Slice(inp, 0, k))

nextRune(inp, k) ==
  LET c == RuneLen(SliceFrom(inp, k))
  IN DecodeRune(SliceFrom(inp, k + c))

PreChars == "-({'\""
PostChars == "-.,:!?;'\")}[\\"

\* a pre-character set that lost its quote characters
isValidPreCharNoQuotes(r) ==
  r = RuneError \/ IsSpace(r) \/ ContainsRune("-({", r)

isValidPreChar(r) ==
  r = RuneError \/ IsSpace(r) \/ ContainsRune(PreChars, r)

isValidPostChar(r) ==
  r = RuneError \/ IsSpace(r) \/ ContainsRune(PostChars, r)

isValidBorderChar(r) == ~IsSpace(r)

hasValidPreAndBorderChars(inp, k) ==
  isValidBorderChar(nextRune(inp, k)) /\ isValidPreChar(prevRune(inp, k))

hasValidPostAndBorderChars(inp, k) ==
  isValidPostChar(nextRune(inp, k)) /\ isValidBorderChar(prevRune(inp, k))

RECURSIVE lineBreakEnd(_, _)
lineBreakEnd(inp, k) ==
  IF k < Len(inp) /\ Char(inp, k) = "\n" THEN lineBreakEnd(inp, k + 1) ELSE k

\* BetweenMultibyteCharacters is always false here: every rune of the model
\* is one byte wide.
parseLineBreakWithPos(inp, start, startLine, startColumn) ==
  LET consumed == lineBreakEnd(inp, start) - start
      pos == positionFromChars(inp, startLine, startColumn, start, start + consumed)
  IN Scan(0, consumed, LineBreak(consumed, pos))

RECURSIVE rawInlineLoop(_, _, _, _, _, _)
rawInlineLoop(inp, startLine, startColumn, previous, current, acc) ==
  IF current < Len(inp)
  THEN IF Char(inp, current) = "\n"
       THEN LET r == parseLineBreakWithPos(inp, current, startLine, startColumn)
                textPos == positionFromChars(inp, startLine, startColumn, previous, current)
                withText == IF current > previous
                            THEN Append(acc, Text(Slice(inp, previous, current), TRUE, textPos))
                            ELSE acc
            IN rawInlineLoop(inp, startLine, startColumn, current + r.consumed,
                             current + r.consumed, Append(withText, r.node))
       ELSE rawInlineLoop(inp, startLine, startColumn, previous, current + 1, acc)
  ELSE IF previous < Len(inp)
       THEN Append(acc, Text(SliceFrom(inp, previous), TRUE,
                             positionFromChars(inp, startLine, startColumn, previous, Len(inp))))
       ELSE acc

parseRawInlineWithPos(inp, startLine, startColumn) ==
  rawInlineLoop(inp, startLine, startColumn, 0, 0, <<>>)

parseRawInline(inp) == parseRawInlineWithPos(inp, 0, 0)

\* inlineBlockRegexp at offset o: src_(\w+)(\[([^\]]*)\])?{([^}]*)}
\* the groups, the name ending at e, the bracket at r, the braces at b and c
inlineBlockGroups(s, o, e, r, hasParams, b, c) ==
  IF HasPrefix(SliceFrom(s, o), "src_") /\ e > o + 4
     /\ b < Len(s) /\ Char(s, b) = "{" /\ c # -1
  THEN <<Slice(s, o, c + 1), Slice(s, o + 4, e),
         IF hasParams THEN Slice(s, e, r + 1) ELSE "",
         IF hasParams THEN Slice(s, e + 1, r) ELSE "",
         Slice(s, b + 1, c)>>
  ELSE <<>>

inlineBlockBody(s, o, e, r, hasParams, b) ==
  inlineBlockGroups(s, o, e, r, hasParams, b, IndexFrom(s, "}", b + 1))

inlineBlockParams(s, o, e, r) ==
  IF e < Len(s) /\ Char(s, e) = "[" /\ r # -1
  THEN inlineBlockBody(s, o, e, r, TRUE, r + 1)
  ELSE inlineBlockBody(s, o, e, r, FALSE, e)

inlineBlockName(s, o, e) == inlineBlockParams(s, o, e, IndexFrom(s, "]", e + 1))

inlineBlockAt(s, o) == inlineBlockName(s, o, SkipSet(s, o + 4, WordChars))

inlineBlockMatch(s) == LeftmostMatch(inlineBlockAt, s)

\* the node of parseInlineBlockWithPos, m being what inlineBlockRegexp gave
inlineBlockNode(inp, start, startLine, startColumn, m) ==
  IF m # <<>>
  THEN Scan(3, Len(m[1]),
            InlineBlock("src", Fields(m[2] \o " " \o m[4]), parseRawInline(m[5]),
                        positionFromChars(inp, startLine, startColumn, start - 3,
                                          start + Len(m[1]))))
  ELSE NoMatch

parseInlineBlockWithPos(inp, start, startLine, startColumn) ==
  IF ~(HasSuffix(Slice(inp, 0, start), "src")
       /\ (start - 4 < 0 \/ IsSpace(Char(inp, start - 4))))
  THEN NoMatch
  ELSE inlineBlockNode(inp, start, startLine, startColumn,
                       inlineBlockMatch(SliceFrom(inp, start - 3)))

\* inlineExportBlockRegexp at offset o: @@(\w+):(.*?)@@
inlineExportBlockAt(s, o) ==
  LET e == SkipSet(s, o + 2, WordChars)
      q == IndexFrom(s, "@@", e + 1)
  IN IF HasPrefix(SliceFrom(s, o), "@@") /\ e > o + 2 /\ e < Len(s) /\ Char(s, e) = ":"
        /\ q # -1 /\ q < LineEndFrom(s, e + 1)
     THEN <<Slice(s, o, q + 2), Slice(s, o + 2, e), Slice(s, e + 1, q)>>
     ELSE <<>>

inlineExportBlockMatch(s) == LeftmostMatch(inlineExportBlockAt, s)

parseInlineExportBlockWithPos(inp, start, startLine, startColumn) ==
  LET m == inlineExportBlockMatch(SliceFrom(inp, start))
      consumed == Len(m[1])
      pos == positionFromChars(inp, startLine, startColumn, start, start + consumed)
  IN IF m # <<>>
     THEN Scan(0, consumed, InlineBlock("export", <<m[2]>>, parseRawInline(m[3]), pos))
     ELSE NoMatch

\* macroRegexp at offset o: {{{(.*)\((.*)\)}}}, both groups greedy, so the
\* name runs to the last ( that a )}}} follows on the line and the
\* parameters to the last )}}} of the line
macroAt(s, o) ==
  LET e == LineEndFrom(s, o)
      qs == {q \in (o + 4) .. (e - 4) : Slice(s, q, q + 4) = ")}}}"}
      ps == {p \in (o + 3) .. (e - 5) : Char(s, p) = "(" /\ \E q \in qs : q > p}
      p == CHOOSE x \in ps : \A y \in ps : y <= x
      q == CHOOSE x \in qs : \A y \in qs : y <= x
  IN IF HasPrefix(SliceFrom(s, o), "{{{") /\ ps # {}
     THEN <<Slice(s, o, q + 4), Slice(s, o + 3, p), Slice(s, p + 1, q)>>
     ELSE <<>>

macroMatch(s) == LeftmostMatch(macroAt, s)

parseMacroWithPos(inp, start, startLine, startColumn) ==
  LET m == macroMatch(SliceFrom(inp, start))
      consumed == Len(m[1])
      pos == positionFromChars(inp, startLine, startColumn, start, start + consumed)
  IN IF m # <<>> THEN Scan(0, consumed, Macro(m[2], Split(m[3], ","), pos))
     ELSE NoMatch

\* subScriptSuperScriptRegexp: ^([_^]){([^{}]+?)}
subScriptSuperScriptMatch(s) ==
  LET c == SkipSet(s, 2, {b \in {Char(s, k) : k \in 0 .. (Len(s) - 1)} : b \notin {"{", "}"}})
  IN IF Len(s) >= 4 /\ Char(s, 0) \in {"_", "^"} /\ Char(s, 1) = "{"
        /\ c >= 3 /\ c < Len(s) /\ Char(s, c) = "}"
     THEN <<Slice(s, 0, c + 1), Char(s, 0), Slice(s, 2, c)>>
     ELSE <<>>

parseSubOrSuperScriptWithPos(inp, start, startLine, startColumn) ==
  LET m == subScriptSuperScriptMatch(SliceFrom(inp, start))
      consumed == Len(m[3]) + 3
      pos == positionFromChars(inp, startLine, startColumn, start, start + consumed)
      contentPos == positionFromChars(inp, startLine, startColumn, start + 2,
                                      start + 2 + Len(m[3]))
  IN IF m # <<>>
     THEN Scan(0, consumed, Emphasis(m[2] \o "{}", <<Text(m[3], FALSE, contentPos)>>, pos))
     ELSE NoMatch

ValidURLCharacters ==
  "ABCDEFGHIJKLMNOPQRSTUVWXYZabcdefghijklmnopqrstuvwxyz0123456789-._~:/?#[]@!$&'()*+,;="

\* autolinkProtocols: ^(https?|ftp|file)$
autolinkProtocolsMatch(s) ==
  IF s \in {"http", "https", "ftp", "file"} THEN <<s, s>> ELSE <<>>

\* the backward loop of parseAutoLinkWithPos: it looks at input[protocolStart]
\* only while protocolStart > 0
RECURSIVE protocolStartLoop(_, _)
protocolStartLoop(inp, protocolStart) ==
  IF protocolStart > 0
  THEN IF ~IsLetter(Char(inp, protocolStart)) THEN protocolStart + 1
       ELSE protocolStartLoop(inp, protocolStart - 1)
  ELSE protocolStart

RECURSIVE urlEnd(_, _)
urlEnd(inp, end) ==
  IF end < Len(inp) /\ ContainsRune(ValidURLCharacters, Char(inp, end))
  THEN urlEnd(inp, end + 1)
  ELSE end

parseAutoLinkWithPos(cfg, inp, start, startLine, startColumn) ==
  LET protocolStart == protocolStartLoop(inp, start - 1)
      m == autolinkProtocolsMatch(Slice(inp, protocolStart, start))
      protocol == m[2]
      path == Slice(inp, start, urlEnd(inp, start))
      pos == positionFromChars(inp, startLine, startColumn, start - Len(protocol),
                               start + Len(path))
  IN IF ~cfg.AutoLink \/ start = 0 \/ Len(SliceFrom(inp, start)) < 3
        \/ Slice(inp, start, start + 3) # "://"
     THEN NoMatch
     ELSE IF m = <<>> THEN NoMatch
     ELSE IF path = "://" THEN NoMatch
     ELSE Scan(Len(protocol), Len(path \o protocol),
               RegularLink(protocol, <<>>, protocol \o path, TRUE, pos))

parseAutoLink(cfg, inp, start) == parseAutoLinkWithPos(cfg, inp, start, 0, 0)

RECURSIVE parseInlineWithPos(_, _, _, _)
RECURSIVE inlineLoop(_, _, _, _, _, _, _)
RECURSIVE emphasisLoop(_, _, _, _, _, _, _, _)

\* the for loop of parseEmphasisWithPos: k is its i, newLines its consumedNewLines
emphasisLoop(cfg, inp, start, isRaw, startLine, startColumn, k, newLines) ==
  IF k < Len(inp) /\ newLines <= cfg.MaxEmphasisNewLines
  THEN LET counted == IF Char(inp, k) = "\n" THEN newLines + 1 ELSE newLines
       IN IF Char(inp, k) = Char(inp, start) /\ k # start + 1
             /\ hasValidPostAndBorderChars(inp, k)
          THEN LET content ==
                     IF isRaw
                     THEN parseRawInline(Slice(inp, start + 1, k))
                     ELSE parseInlineWithPos(cfg, Slice(inp, start + 1, k), startLine,
                                             startColumn + start + 1)
                   pos == positionFromChars(inp, startLine, startColumn, start, k + 1)
               IN Scan(0, k + 1 - start, Emphasis(Char(inp, start), content, pos))
          ELSE emphasisLoop(cfg, inp, start, isRaw, startLine, startColumn, k + 1, counted)
  ELSE NoMatch

parseEmphasisWithPos(cfg, inp, start, isRaw, startLine, startColumn) ==
  IF ~hasValidPreAndBorderChars(inp, start)
  THEN NoMatch
  ELSE emphasisLoop(cfg, inp, start, isRaw, startLine, startColumn, start + 1, 0)

\* what the first scanner gave if it consumed, else what the next one gives
firstConsumed(first, next) == IF first.consumed # 0 THEN first ELSE next

latexFragmentPairs(openingPair) ==
  CASE openingPair = "\\(" -> "\\)"
    [] openingPair = "\\[" -> "\\]"
    [] openingPair = "$$" -> "$$"
    [] openingPair = "$" -> "$"

latexFragmentFound(inp, start, pairLength, startLine, startColumn, openingPair,
                   closingPair, found) ==
  IF found # -1
  THEN Scan(0, found + pairLength + pairLength,
            LatexFragment(openingPair, closingPair,
                          parseRawInline(Slice(inp, start + pairLength,
                                               start + pairLength + found)),
                          positionFromChars(inp, startLine, startColumn, start,
                                            start + found + pairLength + pairLength)))
  ELSE NoMatch

latexFragmentClosing(inp, start, pairLength, startLine, startColumn, openingPair) ==
  latexFragmentFound(inp, start, pairLength, startLine, startColumn, openingPair,
                     latexFragmentPairs(openingPair),
                     Index(SliceFrom(inp, start + pairLength),
                           latexFragmentPairs(openingPair)))

latexFragmentOpening(inp, start, pairLength, startLine, startColumn) ==
  latexFragmentClosing(inp, start, pairLength, startLine, startColumn,
                       Slice(inp, start, start + pairLength))

parseLatexFragmentWithPos(inp, start, pairLength, startLine, startColumn) ==
  IF start + 2 >= Len(inp)
  THEN NoMatch
  ELSE latexFragmentOpening(inp, start,
                            IF pairLength = 1 /\ Slice(inp, start, start + 2) = "$$"
                            THEN 2 ELSE pairLength,
                            startLine, startColumn)

\* latexFragmentRegexp, (?s)^\\begin{(\w+)}(.*)\\end{(\w+)}, on s: the name ends
\* at e, and the greedy (.*) runs to the last \end{ that a name and a } follow
latexEnds(s, e) ==
  {q \in (e + 1)..(Len(s) - 7) :
     /\ HasPrefix(SliceFrom(s, q), "\\end{")
     /\ SkipSet(s, q + 5, WordChars) > q + 5
     /\ SkipSet(s, q + 5, WordChars) < Len(s)
     /\ Char(s, SkipSet(s, q + 5, WordChars)) = "}"}

latexGroups(s, e, q, f) ==
  <<Slice(s, 0, f + 1), Slice(s, 7, e), Slice(s, e + 1, q), Slice(s, q + 5, f)>>

latexLastEnd(s, e, ends) ==
  IF ends = {}
  THEN <<>>
  ELSE latexGroups(s, e, CHOOSE q \in ends : \A p \in ends : p <= q,
                   SkipSet(s, 5 + (CHOOSE q \in ends : \A p \in ends : p <= q),
                           WordChars))

latexName(s, e) ==
  IF e > 7 /\ e < Len(s) /\ Char(s, e) = "}" THEN latexLastEnd(s, e, latexEnds(s, e)) ELSE <<>>

latexFragmentMatch(s) ==
  IF HasPrefix(s, "\\begin{") THEN latexName(s, SkipSet(s, 7, WordChars)) ELSE <<>>

environmentFound(inp, start, startLine, startColumn, openingPair, closingPair, content,
                 consumed) ==
  Scan(0, consumed,
       LatexFragment(openingPair, closingPair, parseRawInline(content),
                     positionFromChars(inp, startLine, startColumn, start,
                                       start + consumed)))

environmentPairs(inp, start, startLine, startColumn, openingPair, closingPair, content) ==
  environmentFound(inp, start, startLine, startColumn, openingPair, closingPair, content,
                   Index(SliceFrom(inp, start), closingPair) + Len(closingPair))

environmentNode(inp, start, startLine, startColumn, m) ==
  IF m # <<>> /\ m[2] = m[4]
  THEN environmentPairs(inp, start, startLine, startColumn, "\\begin{" \o m[2] \o "}",
                        "\\end{" \o m[4] \o "}", m[3])
  ELSE NoMatch

\* the loop of the second case of parseExplicitLineBreakOrLatexFragmentWithPos:
\* the index of the newline that ends the white space from at on, or -1
RECURSIVE explicitLineBreakEnd(_, _)
explicitLineBreakEnd(inp, at) ==
  IF at <= Len(inp) - 1 /\ IsSpace(Char(inp, at))
  THEN IF Char(inp, at) = "\n" THEN at ELSE explicitLineBreakEnd(inp, at + 1)
  ELSE -1

explicitLineBreakNode(inp, start, startLine, startColumn, end) ==
  IF end # -1
  THEN Scan(0, end + 1 - start,
            ExplicitLineBreak(positionFromChars(inp, startLine, startColumn, start,
                                                end + 1)))
  ELSE NoMatch

parseExplicitLineBreakOrLatexFragmentWithPos(inp, start, startLine, startColumn) ==
  CASE start + 2 >= Len(inp) -> NoMatch
    [] start + 2 < Len(inp) /\ Char(inp, start + 1) = "\\" /\ start # 0
                            /\ Char(inp, start - 1) # "\n" ->
         explicitLineBreakNode(inp, start, startLine, startColumn,
                               explicitLineBreakEnd(inp, start + 2))
    [] start + 2 < Len(inp) /\ Char(inp, start + 1) \in {"(", "["} ->
         parseLatexFragmentWithPos(inp, start, 2, startLine, startColumn)
    [] start + 2 < Len(inp) /\ HasPrefix(SliceFrom(inp, start), "\\begin{") ->
         environmentNode(inp, start, startLine, startColumn,
                         latexFragmentMatch(SliceFrom(inp, start)))
    [] OTHER -> NoMatch

\* the scanners parseSubScriptOrEmphasisOrInlineBlockWithPos tries at a "_"
\* before parseEmphasisWithPos; the other markers have none
parseSubScriptOrInlineBlock(c, inp, start, startLine, startColumn) ==
  IF c = "_"
  THEN firstConsumed(parseInlineBlockWithPos(inp, start, startLine, startColumn),
                     parseSubOrSuperScriptWithPos(inp, start, startLine, startColumn))
  ELSE NoMatch

\* the switch of parseInlineWithPos on input[current]. The scanners of the
\* triggers [ and < are not part of this model: no text of the model holds
\* these bytes.
inlineDispatch(cfg, inp, current, startLine, startColumn) ==
  LET c == Char(inp, current)
  IN CASE c = "^" -> parseSubOrSuperScriptWithPos(inp, current, startLine, startColumn)
       [] c = "@" -> parseInlineExportBlockWithPos(inp, current, startLine, startColumn)
       [] c = "{" -> parseMacroWithPos(inp, current, startLine, startColumn)
       [] c = ":" -> parseAutoLink(cfg, inp, current)
       [] c \in {"_", "*", "/", "+", "=", "~"} ->
            firstConsumed(parseSubScriptOrInlineBlock(c, inp, current, startLine,
                                                      startColumn),
                          parseEmphasisWithPos(cfg, inp, current, c \in {"=", "~"},
                                               startLine, startColumn))
       [] c = "\n" -> parseLineBreakWithPos(inp, current, startLine, startColumn)
       [] c = "\\" ->
            parseExplicitLineBreakOrLatexFragmentWithPos(inp, current, startLine,
                                                         startColumn)
       [] c = "$" -> parseLatexFragmentWithPos(inp, current, 1, startLine, startColumn)
       [] OTHER -> NoMatch

\* one turn of the loop of parseInlineWithPos, r being what the switch gave
inlineStep(cfg, inp, startLine, startColumn, previous, current, acc, r) ==
  LET cur == current - r.rewind
      textPos == positionFromChars(inp, startLine, startColumn, previous, cur)
      withText == IF cur > previous
                  THEN Append(acc, Text(Slice(inp, previous, cur), FALSE, textPos))
                  ELSE acc
      withNode == IF r.node.type # "nil" THEN Append(withText, r.node) ELSE withText
  IN IF r.consumed # 0
     THEN inlineLoop(cfg, inp, startLine, startColumn, cur + r.consumed,
                     cur + r.consumed, withNode)
     ELSE inlineLoop(cfg, inp, startLine, startColumn, previous, cur + 1, acc)

inlineLoop(cfg, inp, startLine, startColumn, previous, current, acc) ==
  IF current < Len(inp)
  THEN inlineStep(cfg, inp, startLine, startColumn, previous, current, acc,
                  inlineDispatch(cfg, inp, current, startLine, startColumn))
  ELSE IF previous < Len(inp)
       THEN Append(acc, Text(SliceFrom(inp, previous), FALSE,
                             positionFromChars(inp, startLine, startColumn, previous, Len(inp))))
       ELSE acc

parseInlineWithPos(cfg, inp, startLine, startColumn) ==
  inlineLoop(cfg, inp, startLine, startColumn, 0, 0, <<>>)

parseInline(cfg, inp) == parseInlineWithPos(cfg, inp, 0, 0)


-----------------------------------------------------------------------------
(* Tokens and the line lexers (document.go, list.go, footnote.go).         *)
(* matches is the regexp submatch slice: M(t, k) is t.matches[k].          *)

Token(kind, lvl, content, matches) ==
  [kind |-> kind, lvl |-> lvl, content |-> content, matches |-> matches,
   line |-> 0, startCol |-> 0, endCol |-> 0]

nilToken == Token("nil", -1, "", <<>>)

\* token{}: the zero token handed to AddError when no token is at fault
zeroToken == Token("", 0, "", <<>>)

M(t, k) == t.matches[k + 1]

Lexed(t) == [ok |-> TRUE, tok |-> t]
NotLexed == [ok |-> FALSE, tok |-> nilToken]

\* a line that is not text: it holds a byte sequence no pattern of the
\* plain-text lexer accepts
Malformed(line) == Index(line, Bad) # -1

\* plainTextRegexp.FindStringSubmatch: indentation and content, or the empty
\* tuple (nil) when the pattern does not accept the line
plainText(line) ==
  IF Malformed(line) THEN <<>>
  ELSE LET p == SkipSpace(line, 0)
       IN <<line, Slice(line, 0, p), SliceFrom(line, p)>>

lexText(line) ==
  LET m == plainText(line)
  IN IF m # <<>> THEN Lexed(Token("text", Len(m[2]), m[3], m)) ELSE NotLexed

\* a headline: a run of stars at column 0, whitespace, the title
lexHeadline(line) ==
  LET p == SkipSet(line, 0, {"*"})
      q == SkipSpace(line, p)
  IN IF p > 0 /\ q > p
     THEN Lexed(Token("headline", p, SliceFrom(line, q),
                      <<line, Slice(line, 0, p), SliceFrom(line, q)>>))
     ELSE NotLexed

\* the tail (\s+(.*)|$) of both list patterns, at offset p: <<ok, m, content>>
listTail(line, p) ==
  LET q == SkipSpace(line, p)
  IN IF q > p THEN <<TRUE, SliceFrom(line, p), SliceFrom(line, q)>>
     ELSE IF p = Len(line) THEN <<TRUE, "", "">>
     ELSE <<FALSE, "", "">>

\* unorderedListRegexp: ^(\s*)([+*-])(\s+(.*)|$)
unorderedListMatch(line) ==
  LET p == SkipSpace(line, 0)
      tail == listTail(line, p + 1)
  IN IF p < Len(line) /\ Char(line, p) \in {"+", "*", "-"} /\ tail[1]
     THEN <<line, Slice(line, 0, p), Char(line, p), tail[2], tail[3]>>
     ELSE <<>>

\* orderedListRegexp: ^(\s*)(([0-9]+|[a-zA-Z])[.)])(\s+(.*)|$)
orderedListMatch(line) ==
  LET p == SkipSpace(line, 0)
      e == IF p < Len(line) /\ IsDigit(Char(line, p)) THEN SkipSet(line, p, Digits)
           ELSE IF p < Len(line) /\ IsLetter(Char(line, p)) THEN p + 1
           ELSE p
      tail == listTail(line, e + 1)
  IN IF e > p /\ e < Len(line) /\ Char(line, e) \in {".", ")"} /\ tail[1]
     THEN <<line, Slice(line, 0, p), Slice(line, p, e + 1), Slice(line, p, e),
            tail[2], tail[3]>>
     ELSE <<>>

lexList(line) ==
  LET u == unorderedListMatch(line)
      o == orderedListMatch(line)
  IN IF u # <<>> THEN Lexed(Token("unorderedList", Len(u[2]), u[5], u))
     ELSE IF o # <<>> THEN Lexed(Token("orderedList", Len(o[2]), o[6], o))
     ELSE NotLexed

isListToken(t) == t.kind = "unorderedList" \/ t.kind = "orderedList"

\* footnoteDefinitionRegexp: ^\[fn:([\w-]+)\](\s+(.+)|\s*$)
footnoteDefinitionMatch(line) ==
  LET e == SkipSet(line, 4, WordChars \cup {"-"})
      rest == SliceFrom(line, e + 1)
      q == SkipSpace(rest, 0)
      body == IF q >= 1 /\ q < Len(rest) THEN SliceFrom(rest, q)
              ELSE IF q >= 2 THEN SliceFrom(rest, q - 1)
              ELSE ""
  IN IF HasPrefix(line, "[fn:") /\ e > 4 /\ e < Len(line) /\ Char(line, e) = "]"
        /\ (rest = "" \/ IsSpace(Char(rest, 0)))
     THEN <<line, Slice(line, 4, e), rest, body>>
     ELSE <<>>

lexFootnoteDefinition(line) ==
  LET m == footnoteDefinitionMatch(line)
  IN IF m # <<>> THEN Lexed(Token("footnoteDefinition", 0, m[2], m)) ELSE NotLexed

\* tokenize(line): the first lexer of lexFns that accepts the line. The
\* lexers for drawers, blocks, results, tables, rules, keywords, examples
\* and latex blocks accept no line over the bytes this model uses.
tokenize(line) ==
  LET h == lexHeadline(line)
      l == lexList(line)
      f == lexFootnoteDefinition(line)
      t == lexText(line)
  IN IF h.ok THEN h
     ELSE IF l.ok THEN l
     ELSE IF f.ok THEN f
     ELSE IF t.ok THEN t
     ELSE NotLexed


-----------------------------------------------------------------------------
(* The error collector (error.go).                                         *)

ErrorTypeUnexpectedToken == "unexpected_token"
ErrorTypeInvalidStructure == "invalid_structure"
ErrorTypeValidation == "validation_error"
ErrorTypeTokenization == "tokenization_error"
ErrorTypeIO == "io_error"

\* the nil *ParseError
NoError == [Type |-> "nil"]

NewParseError(typ, message, file, pos, tok, cause) ==
  [Type |-> typ, Message |-> message, File |-> file,
   StartLine |-> pos.StartLine, EndLine |-> pos.EndLine,
   StartCol |-> pos.StartColumn, EndCol |-> pos.EndColumn,
   Token |-> tok, Cause |-> cause]

\* an AddError that puts the new diagnostic first
AddErrorFirst(doc, typ, message, pos, tok, cause) ==
  [doc EXCEPT !.Errors = <<NewParseError(typ, message, doc.Path, pos, tok, cause)>> \o @]

AddError(doc, typ, message, pos, tok, cause) ==
  [doc EXCEPT !.Errors = Append(@, NewParseError(typ, message, doc.Path, pos, tok, cause))]

HasErrors(doc) == Len(doc.Errors) > 0

HasFatalError(doc) == doc.FatalError.Type # "nil"

\* an AddFatalError that sets the fatal slot and forgets the append
AddFatalErrorSlotOnly(doc, typ, message, pos, tok, cause) ==
  [doc EXCEPT !.FatalError = NewParseError(typ, message, doc.Path, pos, tok, cause)]

AddFatalError(doc, typ, message, pos, tok, cause) ==
  LET err == NewParseError(typ, message, doc.Path, pos, tok, cause)
  IN [doc EXCEPT !.FatalError = err, !.Errors = Append(@, err)]

getPositionFromToken(tok) == Position(tok.line, tok.startCol, tok.line, tok.endCol)

-----------------------------------------------------------------------------
(* The Document (document.go). tokensSet and NodesSet tell a nil slice     *)
(* from an empty one. log is history: the events of the block parser, in   *)
(* order (a nesting context opened, a token handed to a parser, a token    *)
(* coerced to text).                                                       *)

\* The Outline. A *Section is its index in sections, the Sections allocated
\* so far in allocation order; the root Section, which wraps no headline,
\* is the first.
NilHeadline == [type |-> "nil"]

Section(headline) == [Headline |-> headline, Children |-> <<>>]

RootSection == 1

\* Outline{outlineSection, outlineSection, 0}
NewOutline == [sections |-> <<Section(NilHeadline)>>, last |-> RootSection, count |-> 0]

Document(cfg, path) ==
  [cfg |-> cfg, Path |-> path,
   tokens |-> <<>>, tokensSet |-> FALSE,
   baseLvl |-> 0,
   Nodes |-> <<>>, NodesSet |-> FALSE,
   Outline |-> NewOutline,
   log |-> <<>>,
   Errors |-> <<>>, FatalError |-> NoError,
   Pos |-> ZeroPos]

Tok(doc, k) == doc.tokens[k + 1]

Log(doc, event) == [doc EXCEPT !.log = Append(@, event)]
SetTok(doc, k, t) == [doc EXCEPT !.tokens[k + 1] = t]


-----------------------------------------------------------------------------
(* The block parser (document.go, list.go, footnote.go).                   *)
(*                                                                         *)
(* A parse function returns R(consumed, node, doc): doc is the Document as *)
(* the call left it. A Go panic (an index out of range, the explicit panic *)
(* of listKind) is the result Panic(doc); every caller passes it on, up to *)
(* the recover guard of Parse.                                             *)
(*                                                                         *)
(* A stopFn closure is the sequence of the frames it was composed from,    *)
(* outermost first; Stop evaluates it as the closures do: the caller's     *)
(* predicate first, then the frame's own condition.                        *)

R(consumed, node, doc) == [consumed |-> consumed, node |-> node, doc |-> doc, panic |-> FALSE]
Panic(doc) == [consumed |-> 0, node |-> NilNode, doc |-> doc, panic |-> TRUE]

UnorderedList == "unordered"
OrderedList == "ordered"
DescriptiveList == "descriptive"

\* descriptiveListItemRegexp.FindStringIndex: \s::(\s|$)
RECURSIVE descriptiveFrom(_, _)
descriptiveFrom(s, p) ==
  IF p + 3 > Len(s) THEN <<>>
  ELSE IF IsSpace(Char(s, p)) /\ Slice(s, p + 1, p + 3) = "::"
          /\ (p + 3 = Len(s) \/ IsSpace(Char(s, p + 3)))
       THEN <<p, IF p + 3 < Len(s) THEN p + 4 ELSE p + 3>>
       ELSE descriptiveFrom(s, p + 1)

descriptiveListItemIndex(s) == descriptiveFrom(s, 0)

\* listItemStatusRegexp.FindStringSubmatch: \[( |X|-)\]\s
RECURSIVE statusFrom(_, _)
statusFrom(s, p) ==
  IF p + 4 > Len(s) THEN <<>>
  ELSE IF Char(s, p) = "[" /\ Char(s, p + 1) \in {" ", "X", "-"} /\ Char(s, p + 2) = "]"
          /\ IsSpace(Char(s, p + 3))
       THEN <<Slice(s, p, p + 4), Char(s, p + 1)>>
       ELSE statusFrom(s, p + 1)

listItemStatusMatch(s) == statusFrom(s, 0)

\* listItemValueRegexp.FindStringSubmatch: \[@(\d+)\]\s
RECURSIVE valueFrom(_, _)
valueFrom(s, p) ==
  IF p + 5 > Len(s) THEN <<>>
  ELSE LET e == SkipSet(s, p + 2, Digits)
       IN IF Slice(s, p, p + 2) = "[@" /\ e > p + 2 /\ e + 1 < Len(s)
             /\ Char(s, e) = "]" /\ IsSpace(Char(s, e + 1))
          THEN <<Slice(s, p, e + 2), Slice(s, p + 2, e)>>
          ELSE valueFrom(s, p + 1)

listItemValueMatch(s) == valueFrom(s, 0)

\* listKind(t): the bullet family and the list kind; panic when the bullet
\* is missing or of no family
listKind(t) ==
  LET bullet == M(t, 2)
      main == IF bullet \in {"*", "+", "-"} THEN UnorderedList ELSE OrderedList
  IN IF Len(t.matches) < 3 THEN [panic |-> TRUE, main |-> "", kind |-> ""]
     ELSE IF bullet \notin {"*", "+", "-"}
             /\ (bullet = "" \/ ~(IsLetter(Char(bullet, 0)) \/ IsDigit(Char(bullet, 0))))
     THEN [panic |-> TRUE, main |-> "", kind |-> ""]
     ELSE [panic |-> FALSE, main |-> main,
           kind |-> IF descriptiveListItemIndex(t.content) # <<>> THEN DescriptiveList
                    ELSE main]

\* two consecutive blank lines end at index k
isSecondBlankLine(doc, k) ==
  /\ k >= 1
  /\ Tok(doc, k - 1).kind = "text" /\ Tok(doc, k - 1).content = ""
  /\ Tok(doc, k).kind = "text" /\ Tok(doc, k).content = ""

TopStop == <<[k |-> "top"]>>

RECURSIVE Stop(_, _, _)
\* stop closures where the one of parseListItem asks its caller's closure
\* only whether the buffer has ended
StopItemAlone(stop, doc, k) ==
  LET f == stop[Len(stop)]
      parentStop == SubSeq(stop, 1, Len(stop) - 1)
      t == Tok(doc, k)
  IN CASE f.k = "top" -> k >= Len(doc.tokens)
       [] f.k = "item" ->
            IF k >= Len(doc.tokens) THEN TRUE
            ELSE t.lvl < f.minIndent /\ ~(t.kind = "text" /\ t.content = "")
       [] f.k = "footnote" ->
            \/ Stop(parentStop, doc, k)
            \/ (isSecondBlankLine(doc, k) /\ k > f.start + 1)
            \/ t.kind = "headline"
            \/ t.kind = "footnoteDefinition"
       [] f.k = "headline" ->
            Stop(parentStop, doc, k) \/ (t.kind = "headline" /\ t.lvl <= f.lvl)
       [] f.k = "paragraph" ->
            Stop(parentStop, doc, k) \/ t.kind # "text" \/ t.content = ""

Stop(stop, doc, k) ==
  LET f == stop[Len(stop)]
      parentStop == SubSeq(stop, 1, Len(stop) - 1)
      t == Tok(doc, k)
  IN CASE f.k = "top" -> k >= Len(doc.tokens)
       [] f.k = "item" ->
            IF Stop(parentStop, doc, k) THEN TRUE
            ELSE t.lvl < f.minIndent /\ ~(t.kind = "text" /\ t.content = "")
       [] f.k = "footnote" ->
            \/ Stop(parentStop, doc, k)
            \/ (isSecondBlankLine(doc, k) /\ k > f.start + 1)
            \/ t.kind = "headline"
            \/ t.kind = "footnoteDefinition"
       [] f.k = "headline" ->
            Stop(parentStop, doc, k) \/ (t.kind = "headline" /\ t.lvl <= f.lvl)
       [] f.k = "paragraph" ->
            Stop(parentStop, doc, k) \/ t.kind # "text" \/ t.content = ""

\* history: the token at k is handed to a parser inside the contexts whose
\* stop closures are the stack enclosing and its prefixes; stops tells
\* whether one of them is true at k
Handed(doc, enclosing, k) ==
  Log(doc, [ev |-> "hand", k |-> k,
            stops |-> \E n \in 1 .. Len(enclosing) : Stop(SubSeq(enclosing, 1, n), doc, k)])

\* the contexts that enclose the one whose stop closure is stop
Enclosing(stop) == SubSeq(stop, 1, Len(stop) - 1)

\* history: a nesting context is opened
Opened(doc, kind, stop, parentStop) ==
  Log(doc, [ev |-> "open", kind |-> kind, stop |-> stop, parent |-> parentStop])

RECURSIVE parseOne(_, _, _)
RECURSIVE parseManyLoop(_, _, _, _, _)
RECURSIVE parseList(_, _, _)
RECURSIVE listLoop(_, _, _, _, _, _, _)
RECURSIVE parseListItem(_, _, _, _)
RECURSIVE itemLoop(_, _, _, _, _)
RECURSIVE parseFootnoteDefinition(_, _, _)
RECURSIVE parseHeadline(_, _, _)

\* Section.add: current becomes the last child of parent
add(sections, parent, current) ==
  [sections EXCEPT ![parent].Children = Append(@, current)]

\* EXCLUDE_TAGS of the default settings
ExcludeTag == "noexport"

\* Headline.IsExcluded: the headline carries the exclusion tag
IsExcluded(headline) == ExcludeTag \in headline.Tags

\* an addHeadline that counts every headline
addHeadlineCountsAll(doc, headline) ==
  LET current == Len(doc.Outline.sections) + 1
      linked == add(Append(doc.Outline.sections, Section(headline)), doc.Outline.last,
                    current)
  IN [doc |-> [doc EXCEPT !.Outline = [sections |-> linked, last |-> current,
                                       count |-> doc.Outline.count + 1]],
      index |-> doc.Outline.count + 1]

\* addHeadline: the Document it leaves and the count it returns
addHeadline(doc, headline) ==
  LET current == Len(doc.Outline.sections) + 1
      linked == add(Append(doc.Outline.sections, Section(headline)), doc.Outline.last,
                    current)
      count == IF ~IsExcluded(headline) THEN doc.Outline.count + 1 ELSE doc.Outline.count
  IN [doc |-> [doc EXCEPT !.Outline = [sections |-> linked, last |-> current,
                                       count |-> count]],
      index |-> count]

RECURSIVE paragraphEnd(_, _, _)
paragraphEnd(doc, k, stop) ==
  IF Stop(stop, doc, k) THEN k ELSE paragraphEnd(doc, k + 1, stop)

RECURSIVE joinLines(_, _, _)
joinLines(doc, k, e) ==
  IF k >= e THEN ""
  ELSE IF k + 1 = e THEN Tok(doc, k).content
  ELSE Tok(doc, k).content \o "\n" \o joinLines(doc, k + 1, e)

\* a paragraph: the run of non-blank text lines from k on, its joined
\* content handed to the inline parser
parseParagraph(doc, k, parentStop) ==
  LET e == paragraphEnd(doc, k + 1, Append(parentStop, [k |-> "paragraph"]))
  IN R(e - k, [type |-> "Paragraph",
               Children |-> parseInline(doc.cfg, joinLines(doc, k, e))], doc)

\* one turn of the loop of parseMany, r being what parseOne returned
parseManyStep(start, k, stop, acc, r) ==
  IF r.panic
  THEN [consumed |-> 0, nodes |-> acc, doc |-> r.doc, panic |-> TRUE]
  ELSE parseManyLoop(r.doc, start, k + r.consumed, stop,
                     IF r.node.type # "nil" THEN Append(acc, r.node) ELSE acc)

parseManyLoop(doc, start, k, stop, acc) ==
  IF k < Len(doc.tokens) /\ ~Stop(stop, doc, k)
  THEN parseManyStep(start, k, stop, acc, parseOne(Handed(doc, Enclosing(stop), k), k, stop))
  ELSE [consumed |-> k - start, nodes |-> acc, doc |-> doc, panic |-> FALSE]

parseMany(doc, k, stop) == parseManyLoop(doc, k, k, stop, <<>>)

\* a headline: it is registered with the Outline, then come its title and
\* the section body up to the next headline of equal or lower level
headlineNode(cfg, t, body) ==
  IF body.panic THEN Panic(body.doc)
  ELSE R(body.consumed + 1,
         [type |-> "Headline", Lvl |-> t.lvl,
          Title |-> parseInline(cfg, t.content), Children |-> body.nodes],
         body.doc)

parseHeadline(doc, k, parentStop) ==
  headlineNode(doc.cfg, Tok(doc, k),
               parseMany(addHeadline(doc, [Lvl |-> Tok(doc, k).lvl, Tags |-> {}]).doc, k + 1,
                         Append(parentStop, [k |-> "headline", lvl |-> Tok(doc, k).lvl])))

\* d.tokens[i] = tokenize(...): the slot k is overwritten with what the
\* lexers make of the line, a tokenization_error recorded when none accepts it
retokenize(doc, k, lexed) ==
  IF lexed.ok THEN SetTok(doc, k, lexed.tok)
  ELSE AddError(SetTok(doc, k, lexed.tok), ErrorTypeTokenization, "could not lex line",
                getPositionFromToken(lexed.tok), lexed.tok, "no lexer matched")

footnoteNode(startToken, k, body) ==
  LET last == Tok(body.doc, k + body.consumed - 1)
      pos == IF body.consumed > 0
             THEN Position(startToken.line, startToken.startCol, last.line, last.endCol)
             ELSE ZeroPos
  IN IF body.panic THEN Panic(body.doc)
     ELSE R(body.consumed,
            [type |-> "FootnoteDefinition", Name |-> startToken.content,
             Children |-> body.nodes, Inline |-> FALSE, Pos |-> pos],
            body.doc)

parseFootnoteDefinition(doc, k, parentStop) ==
  IF Len(Tok(doc, k).matches) < 3 THEN Panic(doc)
  ELSE footnoteNode(Tok(doc, k), k,
                    parseMany(Opened(retokenize(doc, k, tokenize(M(Tok(doc, k), 2))),
                                     "footnote",
                                     Append(parentStop, [k |-> "footnote", start |-> k]),
                                     parentStop),
                              k, Append(parentStop, [k |-> "footnote", start |-> k])))

\* a stop closure of parseList that does not compare the bullet families
listStopAnyKind(doc, k, lvl, listMainKind, parentStop) ==
  IF Stop(parentStop, doc, k) \/ Tok(doc, k).lvl # lvl \/ ~isListToken(Tok(doc, k))
  THEN "stop"
  ELSE IF listKind(Tok(doc, k)).panic THEN "panic" ELSE "go"

\* the stop closure of parseList, at the loop index k: "stop", "go" or "panic"
listStop(doc, k, lvl, listMainKind, parentStop) ==
  IF Stop(parentStop, doc, k) \/ Tok(doc, k).lvl # lvl \/ ~isListToken(Tok(doc, k))
  THEN "stop"
  ELSE LET item == listKind(Tok(doc, k))
       IN IF item.panic THEN "panic"
          ELSE IF item.main # listMainKind THEN "stop" ELSE "go"

\* one turn of the loop of parseList, r being what parseListItem returned
listStep(start, k, lvl, listMainKind, list, parentStop, r) ==
  IF r.panic THEN r
  ELSE listLoop(r.doc, start, k + r.consumed, lvl, listMainKind,
                [list EXCEPT !.Items = Append(@, r.node)], parentStop)

listLoopOn(doc, start, k, lvl, listMainKind, list, parentStop, st) ==
  IF st = "panic" THEN Panic(doc)
  ELSE IF st = "go"
  THEN listStep(start, k, lvl, listMainKind, list, parentStop,
                parseListItem(Handed(doc, parentStop, k), list, k, parentStop))
  ELSE IF k - 1 < 0 THEN Panic(doc)
  ELSE R(k - start,
         [list EXCEPT !.Pos = Position(Tok(doc, start).line, Tok(doc, start).startCol,
                                       Tok(doc, k - 1).line, Tok(doc, k - 1).endCol)],
         doc)

listLoop(doc, start, k, lvl, listMainKind, list, parentStop) ==
  listLoopOn(doc, start, k, lvl, listMainKind, list, parentStop,
             listStop(doc, k, lvl, listMainKind, parentStop))

parseListOf(doc, k, parentStop, lk) ==
  IF lk.panic THEN Panic(doc)
  ELSE listLoop(Opened(doc, "list", [lvl |-> Tok(doc, k).lvl, main |-> lk.main], parentStop),
                k, k, Tok(doc, k).lvl, lk.main,
                [type |-> "List", Kind |-> lk.kind, Items |-> <<>>, Pos |-> ZeroPos],
                parentStop)

parseList(doc, k, parentStop) == parseListOf(doc, k, parentStop, listKind(Tok(doc, k)))

\* the for loop of parseListItem; it appends every node, nil or not
itemStep(start, k, stop, acc, r) ==
  IF r.panic
  THEN [consumed |-> 0, nodes |-> acc, doc |-> r.doc, panic |-> TRUE]
  ELSE itemLoop(r.doc, start, k + r.consumed, stop, Append(acc, r.node))

itemLoop(doc, start, k, stop, acc) ==
  IF ~Stop(stop, doc, k) /\ (k <= start + 1 \/ ~isSecondBlankLine(doc, k))
  THEN itemStep(start, k, stop, acc, parseOne(Handed(doc, Enclosing(stop), k), k, stop))
  ELSE [consumed |-> k - start, nodes |-> acc, doc |-> doc, panic |-> FALSE]

\* what parseListItem reads off the item line before it parses the body:
\* the [@n] value, the checkbox status, the descriptive term, the rest of
\* the content and the base level of the body
itemDescriptive(t, l, minIndent, value, status, content2, dm) ==
  [value |-> value, status |-> status,
   dterm |-> IF dm # <<>> THEN Slice(content2, 0, dm[1]) ELSE "",
   content |-> IF dm # <<>> THEN SliceFrom(content2, dm[2]) ELSE content2,
   baseLvl |-> IF dm # <<>> THEN Index(M(t, 0), " ::") + 4 ELSE minIndent + 1]

itemStatus(t, l, minIndent, value, content1, sm) ==
  itemDescriptive(t, l, minIndent, value,
                  IF sm # <<>> THEN sm[2] ELSE "",
                  IF sm # <<>> THEN SliceFrom(content1, Len("[ ] ")) ELSE content1,
                  IF l.Kind = DescriptiveList
                  THEN descriptiveListItemIndex(
                         IF sm # <<>> THEN SliceFrom(content1, Len("[ ] ")) ELSE content1)
                  ELSE <<>>)

itemValue(t, l, minIndent, vm) ==
  LET hasValue == vm # <<>> /\ l.Kind = OrderedList
      content1 == IF hasValue THEN SliceFrom(t.content, Len("[@] ") + Len(vm[2]))
                  ELSE t.content
  IN itemStatus(t, l, minIndent, IF hasValue THEN vm[2] ELSE "", content1,
                listItemStatusMatch(content1))

itemFields(t, l, minIndent) == itemValue(t, l, minIndent, listItemValueMatch(t.content))

\* a parseListItem that leaves baseLvl as its body left it
keepBaseLvl(doc, originalBaseLvl) == doc

\* d.baseLvl = originalBaseLvl, after the for loop of parseListItem
restoreBaseLvl(doc, originalBaseLvl) == [doc EXCEPT !.baseLvl = originalBaseLvl]

\* history: parseListItem, entered at k with baseLvl = entered, is past its
\* for loop
LeftItem(doc, k, entered) ==
  Log(doc, [ev |-> "left", k |-> k, entered |-> entered, baseLvl |-> doc.baseLvl])

\* the end of parseListItem, body being what its for loop returned
listItemNode(cfg, l, k, bullet, f, originalBaseLvl, body) ==
  LET doc3 == LeftItem(restoreBaseLvl(body.doc, originalBaseLvl), k, originalBaseLvl)
      e == k + body.consumed
      pos == Position(Tok(doc3, k).line, Tok(doc3, k).startCol,
                      Tok(doc3, e - 1).line, Tok(doc3, e - 1).endCol)
  IN IF body.panic THEN Panic(body.doc)
     ELSE IF e - 1 < 0 THEN Panic(doc3)
     ELSE IF l.Kind = DescriptiveList
     THEN R(e - k,
            [type |-> "DescriptiveListItem", Bullet |-> bullet, Status |-> f.status,
             Term |-> parseInline(cfg, f.dterm), Details |-> body.nodes, Pos |-> pos],
            doc3)
     ELSE R(e - k,
            [type |-> "ListItem", Bullet |-> bullet, Status |-> f.status,
             Value |-> f.value, Children |-> body.nodes, Pos |-> pos],
            doc3)

listItemBody(doc, l, k, parentStop, bullet, minIndent, f) ==
  listItemNode(doc.cfg, l, k, bullet, f, doc.baseLvl,
               itemLoop(Opened([retokenize(doc, k, tokenize(Spaces(minIndent) \o f.content))
                                  EXCEPT !.baseLvl = f.baseLvl],
                               "item",
                               Append(parentStop, [k |-> "item", minIndent |-> minIndent]),
                               parentStop),
                        k, k, Append(parentStop, [k |-> "item", minIndent |-> minIndent]),
                        <<>>))

parseListItem(doc, l, k, parentStop) ==
  LET t == Tok(doc, k)
      bullet == M(t, 2)
      minIndent == t.lvl + Len(bullet)
  IN IF Len(t.matches) < 3 THEN Panic(doc)
     ELSE listItemBody(doc, l, k, parentStop, bullet, minIndent,
                       itemFields(t, l, minIndent))

\* the switch of parseOne on the token kind
parseOneDispatch(doc, k, stop) ==
  LET t == Tok(doc, k)
  IN CASE isListToken(t) -> parseList(doc, k, stop)
       [] t.kind = "text" -> parseParagraph(doc, k, stop)
       [] t.kind = "headline" -> parseHeadline(doc, k, stop)
       [] t.kind = "footnoteDefinition" -> parseFootnoteDefinition(doc, k, stop)
       [] OTHER -> R(0, NilNode, doc)

\* the end of parseOne, r being what the switch returned: a token no parser
\* consumed is recorded, rewritten as a text token and parsed again
coerceRetry(k, r) ==
  IF r.panic THEN r
  ELSE [r EXCEPT !.doc = Log(@, [ev |-> "retry", k |-> k, consumed |-> r.consumed])]

parseOneCoerce(k, stop, r) ==
  LET t == Tok(r.doc, k)
      doc1 == Log(AddError(r.doc, ErrorTypeUnexpectedToken, "could not parse token",
                           getPositionFromToken(t), t, "no parser matched token kind"),
                  [ev |-> "coerce", k |-> k])
      m == plainText(M(t, 0))
  IN IF r.panic \/ r.consumed # 0 THEN r
     ELSE IF Len(t.matches) = 0 THEN Panic(Log(doc1, [ev |-> "coerceFailed", k |-> k]))
     ELSE IF m = <<>> THEN Panic(Log(doc1, [ev |-> "coerceFailed", k |-> k]))
     ELSE coerceRetry(k, parseOne(SetTok(doc1, k, Token("text", Len(m[2]), m[3], m)), k,
                                  stop))

parseOne(doc, k, stop) ==
  IF k < 0 \/ k >= Len(doc.tokens) THEN Panic(doc)
  ELSE IF Tok(doc, k).kind = "text" /\ Tok(doc, k).content = "" THEN R(1, NilNode, doc)
  ELSE parseOneCoerce(k, stop, parseOneDispatch(doc, k, stop))


-----------------------------------------------------------------------------
(* The session: Parse, Write and the exported error calls (document.go,    *)
(* error.go).                                                              *)

\* the lines the enumerated documents are made of
Lines == {"a", "", "- a", "  b", "* H", Bad}

RECURSIVE DocsUpTo(_)
DocsUpTo(n) ==
  IF n = 0 THEN {<<>>}
  ELSE LET shorter == DocsUpTo(n - 1)
       IN shorter \cup {Append(doc, line) : doc \in shorter, line \in Lines}

\* further documents, tried as the first parse of a behaviour
ExtraDocs ==
  { <<"1. c">>,
    <<"[fn:1] a">>,
    <<"- " \o Bad>>,
    <<"- a", "- b", "1. c">>,
    <<"- a", "  - b">>,
    <<"** H", "- a", "** H">>,
    <<"[fn:1] a", "", "-">>,
    <<"a", "[fn:1] a">>,
    <<"- a :: b", "- c">>,
    <<"- [X] a">>, <<"- [ ] a">>, <<"- [-] a">>, <<"- a [X] b">>, <<"- [X]">>,
    <<"1. [@2] a">>, <<"1. a [@2] b">>, <<"1. [@2] [X] a">>, <<"- [@2] a">>,
    <<"1. [X] [@2] a">>,
    <<"- a", "- b :: c">>,
    <<"- a :: b", "- c :: d">>,
    <<"- a", "", "  b">>,
    <<"a", "- " \o Bad, "a">>,
    <<"a", Bad, "a">>,
    <<"[fn:1] a", "", "">>,
    <<"[fn:1] " \o Bad, "a">>,
    <<"* H", "- a", "  b">> }

ParsePath == "a.org"

NoWrite == [called |-> FALSE]

\* no parseInlineWithPos call is under way
NoScan == [on |-> FALSE]

\* fmt.Errorf values
ErrNotParsed == [Type |-> "error", Message |-> "could not write output: parse was not called"]
ErrWriterPanic == [Type |-> "error", Message |-> "could not write output: recovered"]

WriterCalls == <<"Before", "WriteNodes", "After", "String">>

\* a Write that reports the newest error instead of the first
WriteLastError(doc, writerPanics) ==
  IF HasErrors(doc)
  THEN [called |-> TRUE, out |-> "", err |-> doc.Errors[Len(doc.Errors)], writer |-> <<>>]
  ELSE IF ~doc.NodesSet
  THEN [called |-> TRUE, out |-> "", err |-> ErrNotParsed, writer |-> <<>>]
  ELSE [called |-> TRUE, out |-> "rendered", err |-> NoError, writer |-> WriterCalls]

\* Document.Write with a Writer that either works or panics while writing
\* the nodes: the output, the error and the Writer methods that were called
Write(doc, writerPanics) ==
  IF HasErrors(doc)
  THEN [called |-> TRUE, out |-> "", err |-> doc.Errors[1], writer |-> <<>>]
  ELSE IF ~doc.NodesSet
  THEN [called |-> TRUE, out |-> "", err |-> ErrNotParsed, writer |-> <<>>]
  ELSE IF writerPanics
  THEN [called |-> TRUE, out |-> "", err |-> ErrWriterPanic, writer |-> SubSeq(WriterCalls, 1, 2)]
  ELSE [called |-> TRUE, out |-> "rendered", err |-> NoError, writer |-> WriterCalls]

\* a recover that swallows the panic without recording it
parseRecoverSilent(doc) == doc

\* the deferred recover of Parse
parseRecover(doc) ==
  AddError(doc, ErrorTypeInvalidStructure, "parse panic", doc.Pos, zeroToken,
           "recovered from panic")

\* one iteration of the scanner loop of Document.tokenize
tokenizeLine(doc, line, n) ==
  LET lexed == tokenize(line)
  IN IF ~lexed.ok
     THEN AddError(doc, ErrorTypeTokenization, "could not lex line",
                   Position(n, 1, n, Len(line) + 1), [zeroToken EXCEPT !.line = n],
                   "no lexer matched")
     ELSE [doc EXCEPT !.tokens =
             Append(@, [lexed.tok EXCEPT !.line = n, !.startCol = 0, !.endCol = Len(line)])]

Init ==
  /\ d = Document(New, "")
  /\ pc = "idle"
  /\ input = <<>>
  /\ lineNum = 0
  /\ scanned = <<>>
  /\ i = 0
  /\ nodes = <<>>
  /\ steps = <<>>
  /\ ret = "none"
  /\ panicked = FALSE
  /\ prior = Document(New, "")
  /\ wr = NoWrite
  /\ op = [name |-> "none"]
  /\ calls = 0
  /\ fed = 0
  /\ itext = ""
  /\ icfg = New
  /\ iout = [called |-> FALSE]
  /\ emph = [called |-> FALSE]
  /\ scan = NoScan

Callable == pc \in {"idle", "returned"} /\ ret # "nil" /\ calls < MaxCalls

\* Configuration.Parse up to the call of tokenize: the new Document and the
\* guard against a second parse
ParseCall(lines) ==
  /\ Callable
  /\ \/ fed + Len(lines) <= MaxLines
     \/ fed = 0 /\ lines \in ExtraDocs
  /\ LET fresh == Document(d.cfg, ParsePath)
     IN IF fresh.tokensSet
        THEN /\ d' = AddError(fresh, ErrorTypeValidation, "parse called multiple times",
                              fresh.Pos, zeroToken, "nil")
             /\ ret' = "nil"
             /\ pc' = "returned"
             /\ input' = <<>>
        ELSE /\ d' = [fresh EXCEPT !.tokensSet = TRUE]
             /\ ret' = "none"
             /\ pc' = "tokenize"
             /\ input' = lines
  /\ prior' = d
  /\ lineNum' = 0
  /\ scanned' = <<>>
  /\ i' = 0
  /\ nodes' = <<>>
  /\ steps' = <<>>
  /\ panicked' = FALSE
  /\ wr' = NoWrite
  /\ op' = [name |-> "Parse"]
  /\ calls' = calls + 1
  /\ fed' = fed + Len(lines)
  /\ UNCHANGED inlVars

TokenizeLine ==
  /\ pc = "tokenize"
  /\ input # <<>>
  /\ d' = tokenizeLine(d, Head(input), lineNum)
  /\ input' = Tail(input)
  /\ lineNum' = lineNum + 1
  /\ scanned' = Append(scanned, Head(input))
  /\ UNCHANGED <<pc, i, nodes, steps, ret, panicked, prior, wr, op, calls, fed>>
  /\ UNCHANGED inlVars

\* the scanner is exhausted, or its reader failed (scanner.Err)
TokenizeEnd(readFailed) ==
  /\ pc = "tokenize"
  /\ input = <<>>
  /\ d' = IF readFailed
          THEN AddError(d, ErrorTypeIO, "tokenization failed",
                        Position(lineNum, 0, lineNum, 0), [zeroToken EXCEPT !.line = lineNum],
                        "read error")
          ELSE d
  /\ pc' = "parse"
  /\ UNCHANGED <<input, lineNum, scanned, i, nodes, steps, ret, panicked, prior, wr, op,
                 calls, fed>>
  /\ UNCHANGED inlVars

\* one iteration of the top-level parseMany loop, parseOne returning normally
ParseStep ==
  /\ pc = "parse"
  /\ i < Len(d.tokens) /\ ~Stop(TopStop, d, i)
  /\ LET r == parseOne(d, i, TopStop)
     IN /\ ~r.panic
        /\ d' = r.doc
        /\ i' = i + r.consumed
        /\ nodes' = IF r.node.type # "nil" THEN Append(nodes, r.node) ELSE nodes
        /\ steps' = Append(steps, <<i, r.consumed, r.node>>)
  /\ UNCHANGED <<pc, input, lineNum, scanned, ret, panicked, prior, wr, op, calls, fed>>
  /\ UNCHANGED inlVars

\* one iteration of the top-level parseMany loop, parseOne panicking: the
\* deferred recover of Parse runs and Parse returns its named result d
ParsePanic ==
  /\ pc = "parse"
  /\ i < Len(d.tokens) /\ ~Stop(TopStop, d, i)
  /\ LET r == parseOne(d, i, TopStop)
     IN /\ r.panic
        /\ d' = parseRecover(r.doc)
  /\ ret' = "doc"
  /\ panicked' = TRUE
  /\ pc' = "returned"
  /\ UNCHANGED <<input, lineNum, scanned, i, nodes, steps, prior, wr, op, calls, fed>>
  /\ UNCHANGED inlVars

\* the top-level parseMany loop ends: d.Nodes = nodes; return d
ParseReturn ==
  /\ pc = "parse"
  /\ ~(i < Len(d.tokens) /\ ~Stop(TopStop, d, i))
  /\ d' = [d EXCEPT !.Nodes = nodes, !.NodesSet = TRUE]
  /\ ret' = "doc"
  /\ pc' = "returned"
  /\ UNCHANGED <<input, lineNum, scanned, i, nodes, steps, panicked, prior, wr, op, calls, fed>>
  /\ UNCHANGED inlVars

ErrorTypes == {ErrorTypeValidation, ErrorTypeInvalidStructure}

AddErrorCall(typ) ==
  /\ Callable
  /\ d' = AddError(d, typ, "reported", ZeroPos, zeroToken, "cause")
  /\ op' = [name |-> "AddError", typ |-> typ]
  /\ calls' = calls + 1
  /\ UNCHANGED <<pc, input, lineNum, scanned, i, nodes, steps, ret, panicked, prior, wr, fed>>
  /\ UNCHANGED inlVars

AddFatalErrorCall(typ) ==
  /\ Callable
  /\ d' = AddFatalError(d, typ, "fatal", ZeroPos, zeroToken, "cause")
  /\ op' = [name |-> "AddFatalError", typ |-> typ]
  /\ calls' = calls + 1
  /\ UNCHANGED <<pc, input, lineNum, scanned, i, nodes, steps, ret, panicked, prior, wr, fed>>
  /\ UNCHANGED inlVars

WriteCall(writerPanics) ==
  /\ Callable
  /\ wr' = Write(d, writerPanics)
  /\ op' = [name |-> "Write"]
  /\ calls' = calls + 1
  /\ UNCHANGED <<d, pc, input, lineNum, scanned, i, nodes, steps, ret, panicked, prior, fed>>
  /\ UNCHANGED inlVars

Next ==
  \/ \E lines \in DocsUpTo(MaxLines) \cup ExtraDocs : ParseCall(lines)
  \/ TokenizeLine
  \/ \E readFailed \in BOOLEAN : TokenizeEnd(readFailed)
  \/ ParseStep
  \/ ParsePanic
  \/ ParseReturn
  \/ \E typ \in ErrorTypes : AddErrorCall(typ)
  \/ \E typ \in ErrorTypes : AddFatalErrorCall(typ)
  \/ \E writerPanics \in BOOLEAN : WriteCall(writerPanics)

Spec == Init /\ [][Next]_vars

-----------------------------------------------------------------------------
(* The inline parser on its own: a text and a Configuration are chosen,    *)
(* then parseInlineWithPos runs over the text and parseEmphasisWithPos is  *)
(* tried at its emphasis markers, as the switch of parseInlineWithPos      *)
(* calls it.                                                               *)

\* the bytes the enumerated inline texts are made of
InlineBytes == {"a", "*", "/", " ", "\n"}

RECURSIVE TextsUpTo(_)
TextsUpTo(n) ==
  IF n = 0 THEN {""}
  ELSE LET shorter == TextsUpTo(n - 1)
       IN shorter \cup {t \o b : t \in shorter, b \in InlineBytes}

QuotedBoldText == "\"quoted*bold*text\""
QuotedBold == "\"*bold*\""
LettersAdjacent == "a*b*c"

\* further texts: the examples of the specification, the other pre and post
\* characters, raw emphasis, more newlines than any bound, undecodable bytes
ExtraTexts ==
  { QuotedBoldText, QuotedBold, LettersAdjacent,
    "(*a*)", "-*a*.", "{/a/}", "'+a+'", "*a*a", "x *a b* y",
    "=a *b*=", "~a\nb~", "/a *b* c/", "*a\n\n\nb*",
    Bad \o "*a*", "*a*" \o Bad, "a" \o Bad \o "*a*" \o Bad \o "a" }

Configurations == {New, Configuration(0, TRUE)}

EmphasisMarkers == {"*", "/", "+", "=", "~"}
RawMarkers == {"=", "~"}

InitInline ==
  /\ d = Document(New, "")
  /\ pc = "idle"
  /\ input = <<>>
  /\ lineNum = 0
  /\ scanned = <<>>
  /\ i = 0
  /\ nodes = <<>>
  /\ steps = <<>>
  /\ ret = "none"
  /\ panicked = FALSE
  /\ prior = Document(New, "")
  /\ wr = NoWrite
  /\ op = [name |-> "none"]
  /\ calls = 0
  /\ fed = 0
  /\ itext \in TextsUpTo(MaxTextLen) \cup ExtraTexts
  /\ icfg \in Configurations
  /\ iout = [called |-> FALSE]
  /\ emph = [called |-> FALSE]
  /\ scan = NoScan

\* d.parseInline(itext)
InlineParse ==
  /\ ~iout.called
  /\ iout' = [called |-> TRUE, nodes |-> parseInline(icfg, itext)]
  /\ UNCHANGED <<itext, icfg, emph, scan>>
  /\ UNCHANGED docVars

\* d.parseEmphasisWithPos(itext, k, isRaw, 0, 0) at a marker of the text
EmphasisAt ==
  /\ \E k \in 0 .. (Len(itext) - 1) :
       /\ Char(itext, k) \in EmphasisMarkers
       /\ emph' = [called |-> TRUE, start |-> k,
                   res |-> parseEmphasisWithPos(icfg, itext, k,
                                                Char(itext, k) \in RawMarkers, 0, 0)]
  /\ UNCHANGED <<itext, icfg, iout, scan>>
  /\ UNCHANGED docVars

NextInline ==
  \/ InlineParse
  \/ EmphasisAt

SpecInline == InitInline /\ [][NextInline]_vars

-----------------------------------------------------------------------------
(* The loop of parseInlineWithPos, one turn per step: scan holds previous, *)
(* current and nodes, and, as history, the span of the text every appended *)
(* node stands for (covers) and the last turn's rewind and consumed.       *)

\* most chunks an enumerated text of the scan is made of
MaxChunks == 3

\* the pieces the enumerated texts are made of: plain bytes, a scheme and
\* its ://, and the constructs of the sub-scanners with their triggers
ScanChunks ==
  {"a", " ", "\n", "http", "://a", "{", "{{{a(b)}}}", "src_a{b}", "@@a:b@@"}

RECURSIVE ChunkTextsUpTo(_)
ChunkTextsUpTo(n) ==
  IF n = 0 THEN {""}
  ELSE LET shorter == ChunkTextsUpTo(n - 1)
       IN shorter \cup {t \o c : t \in shorter, c \in ScanChunks}

SeeLink == "see https://example.com/x here"
LongerRun == "xhttps://example.com"

\* further texts: the examples of the specification, the other schemes, a
\* scheme without a URL, constructs that start after their trigger
ScanExtras ==
  { SeeLink, LongerRun, "(ftp://a)", "a file://b c", " https://a", "a  http://b",
    "http://", "htt://a", "{{{a(b,c)}}} {{{d(e)}}}", "src_ x src_a{b}", "a src_a{b\nc} d",
    "@  src_a{b} @@a:@@", "@ (http://a @@a:@@", "a^{b} *c_{d}* /e/", "_a_ src_{a}", "@@@a:b@@",
    "\nftp://a", "\\begin{a}x\\end{a}", "\\begin{a}x\\end{a} \\begin{a}y\\end{a}",
    "\\begin{a}x\\end{a}\\begin{b}y\\end{b}", "a \\begin{a}x\\end{b}", "$a$ b", "a $$b$$ c",
    "a \\(b\\) $", "$a", "a\\\\ \nb", "\\\\\nb", "\\begin{a}x\ny\\end{a}\\" }

ScanConfigurations == {New, Configuration(DefaultMaxEmphasisNewLines, FALSE)}

\* the startLine and startColumn parseInlineWithPos is called with: those
\* of parseInline, and those of the content of an emphasis that starts at
\* index 1 (inline.go:523)
ScanStarts == {<<0, 0>>, <<0, 2>>}

InitScan ==
  /\ d = Document(New, "")
  /\ pc = "idle"
  /\ input = <<>>
  /\ lineNum = 0
  /\ scanned = <<>>
  /\ i = 0
  /\ nodes = <<>>
  /\ steps = <<>>
  /\ ret = "none"
  /\ panicked = FALSE
  /\ prior = Document(New, "")
  /\ wr = NoWrite
  /\ op = [name |-> "none"]
  /\ calls = 0
  /\ fed = 0
  /\ itext \in ChunkTextsUpTo(MaxChunks) \cup ScanExtras
  /\ icfg \in ScanConfigurations
  /\ iout = [called |-> FALSE]
  /\ emph = [called |-> FALSE]
  /\ \E at \in ScanStarts :
       scan = [on |-> TRUE, done |-> FALSE, startLine |-> at[1], startColumn |-> at[2],
               previous |-> 0, current |-> 0, nodes |-> <<>>,
               covers |-> <<>>, turns |-> 0,
               last |-> [previous |-> 0, rewound |-> 0, rewind |-> 0, consumed |-> 0]]

Cover(from, to, node) == [from |-> from, to |-> to, node |-> node]

\* one turn of the for loop of parseInlineWithPos
\* the scan after one turn of the loop, r being what the switch gave
ScanTurn(r) ==
     LET current == scan.current - r.rewind
         text == Text(Slice(itext, scan.previous, current), FALSE,
                      positionFromChars(itext, scan.startLine, scan.startColumn,
                                        scan.previous, current))
         withText == IF current > scan.previous THEN Append(scan.nodes, text) ELSE scan.nodes
         coverText == IF current > scan.previous
                      THEN Append(scan.covers, Cover(scan.previous, current, text))
                      ELSE scan.covers
         last == [previous |-> scan.previous, rewound |-> current, rewind |-> r.rewind,
                  consumed |-> r.consumed]
     IN IF r.consumed # 0
        THEN scan' = [scan EXCEPT
                        !.nodes = IF r.node.type # "nil" THEN Append(withText, r.node)
                                  ELSE withText,
                        !.covers = Append(coverText,
                                          Cover(current, current + r.consumed, r.node)),
                        !.current = current + r.consumed,
                        !.previous = current + r.consumed,
                        !.turns = @ + 1,
                        !.last = last]
        ELSE scan' = [scan EXCEPT !.current = current + 1, !.turns = @ + 1, !.last = last]

ScanStep ==
  /\ scan.on /\ ~scan.done
  /\ scan.current < Len(itext)
  /\ ScanTurn(inlineDispatch(icfg, itext, scan.current, scan.startLine,
                             scan.startColumn))
  /\ UNCHANGED <<itext, icfg, iout, emph>>
  /\ UNCHANGED docVars

\* the loop is over: the rest of the text is appended and nodes returned
ScanEnd ==
  /\ scan.on /\ ~scan.done
  /\ scan.current >= Len(itext)
  /\ LET text == Text(SliceFrom(itext, scan.previous), FALSE,
                      positionFromChars(itext, scan.startLine, scan.startColumn,
                                        scan.previous, Len(itext)))
     IN scan' = [scan EXCEPT
                   !.done = TRUE,
                   !.nodes = IF scan.previous < Len(itext) THEN Append(@, text) ELSE @,
                   !.covers = IF scan.previous < Len(itext)
                              THEN Append(@, Cover(scan.previous, Len(itext), text))
                              ELSE @]
  /\ UNCHANGED <<itext, icfg, iout, emph>>
  /\ UNCHANGED docVars

NextScan ==
  \/ ScanStep
  \/ ScanEnd

SpecScan == InitScan /\ [][NextScan]_vars

-----------------------------------------------------------------------------
(* The Outline builder on its own: addHeadline is called with headlines of *)
(* any level, tagged or not, in any order. op keeps, as history, the       *)
(* headlines registered so far and what the last call returned.            *)

\* most addHeadline calls in one behaviour
MaxHeadlines == 3

HeadlineLevels == {1, 2}
HeadlineTags == {{}, {ExcludeTag}, {"x"}}

InitOutline ==
  /\ d = Document(New, ParsePath)
  /\ pc = "idle"
  /\ input = <<>>
  /\ lineNum = 0
  /\ scanned = <<>>
  /\ i = 0
  /\ nodes = <<>>
  /\ steps = <<>>
  /\ ret = "none"
  /\ panicked = FALSE
  /\ prior = Document(New, "")
  /\ wr = NoWrite
  /\ op = [name |-> "none", registered |-> <<>>]
  /\ calls = 0
  /\ fed = 0
  /\ itext = ""
  /\ icfg = New
  /\ iout = [called |-> FALSE]
  /\ emph = [called |-> FALSE]
  /\ scan = NoScan

\* d.addHeadline(&headline)
AddHeadlineCall(lvl, tags) ==
  /\ calls < MaxHeadlines
  /\ LET headline == [Lvl |-> lvl, Tags |-> tags]
         r == addHeadline(d, headline)
     IN /\ d' = r.doc
        /\ op' = [name |-> "addHeadline", headline |-> headline, returned |-> r.index,
                  registered |-> Append(op.registered, headline)]
  /\ calls' = calls + 1
  /\ UNCHANGED <<pc, input, lineNum, scanned, i, nodes, steps, ret, panicked, prior, wr, fed>>
  /\ UNCHANGED inlVars

NextOutline == \E lvl \in HeadlineLevels, tags \in HeadlineTags : AddHeadlineCall(lvl, tags)

SpecOutline == InitOutline /\ [][NextOutline]_vars

-----------------------------------------------------------------------------
(* Properties of the Outline builder.                                      *)

\* the Sections reachable from the Section at through Children
RECURSIVE ReachableFrom(_, _)
ReachableFrom(sections, at) ==
  {at} \cup UNION {ReachableFrom(sections, sections[at].Children[n]) :
                     n \in 1 .. Len(sections[at].Children)}

\* the Sections that have the Section at among their Children
ParentsOf(sections, at) ==
  {p \in 1 .. Len(sections) :
     \E n \in 1 .. Len(sections[p].Children) : sections[p].Children[n] = at}

\* count and last after the headlines registered have been registered
OutlineAsClaimed(o, registered) ==
  /\ o.count = Cardinality({n \in 1 .. Len(registered) : ExcludeTag \notin registered[n].Tags})
  /\ IF registered = <<>> THEN o.last = RootSection
     ELSE /\ o.last # RootSection
          /\ o.last = Len(o.sections)
          /\ o.sections[o.last].Headline = registered[Len(registered)]
  /\ o.last \in ReachableFrom(o.sections, RootSection)

\* no Section is unlinked or given another parent
KeepsSections(o, next) ==
  \A at \in 1 .. Len(o.sections) :
    /\ at <= Len(next.sections)
    /\ next.sections[at].Headline = o.sections[at].Headline
    /\ SubSeq(next.sections[at].Children, 1, Len(o.sections[at].Children))
         = o.sections[at].Children
    /\ ParentsOf(next.sections, at) = ParentsOf(o.sections, at)

C13_Step ==
  /\ OutlineAsClaimed(d.Outline, op.registered)
  /\ OutlineAsClaimed(d'.Outline, op'.registered)
  /\ op'.name = "addHeadline" => op'.returned = d'.Outline.count
  /\ KeepsSections(d.Outline, d'.Outline)

\* C13: after any sequence of addHeadline calls count is the number of
\* registered headlines without the exclusion tag, and what the last call
\* returned; last is the Section of the headline registered last (the root
\* when there is none) and is reachable from the root through Children;
\* addHeadline unlinks no Section and gives none another parent.
C13_OutlineConsistent == [][C13_Step]_vars

C13_Witness ==
  /\ op.name = "addHeadline"
  /\ Len(op.registered) = 3
  /\ d.Outline.count = 2
  /\ ExcludeTag \in op.registered[2].Tags
  /\ Cardinality(ReachableFrom(d.Outline.sections, RootSection)) = 4

-----------------------------------------------------------------------------
(* Properties of the parse session.                                        *)

\* the last entry-point call was Parse and it has returned
ParseReturned == op.name = "Parse" /\ pc = "returned"

\* C1: the top-level parseMany consumes every token exactly once: each
\* parseOne call it makes returns consumed >= 1, the token index never
\* decreases nor passes the end of the buffer, and when Parse has returned the
\* consumed counts sum to len(tokens).
C1_ParseManyConsumesEveryToken ==
  /\ \A n \in 1 .. Len(steps) : steps[n][2] >= 1
  /\ \A n \in 1 .. Len(steps) - 1 : steps[n + 1][1] = steps[n][1] + steps[n][2]
  /\ i <= Len(d.tokens)
  /\ ParseReturned => i = Len(d.tokens)

\* C2: a Parse that panics internally still returns a non-nil Document, and
\* its Errors holds a diagnostic of type invalid_structure.
C2_ParseRecoversPanics ==
  (ParseReturned /\ panicked) =>
    /\ ret = "doc"
    /\ \E n \in 1 .. Len(d.Errors) : d.Errors[n].Type = ErrorTypeInvalidStructure

C2_Witness ==
  /\ ParseReturned /\ panicked
  /\ Len(scanned) >= 2
  /\ Len(d.Errors) >= 2

\* C3: the diagnostic Parse records when it recovers is fatal: on the
\* returned Document HasFatalError() is true and the fatal error is the
\* invalid_structure diagnostic of the guard.
C3_RecoveredDiagnosticIsFatal ==
  (ParseReturned /\ panicked) =>
    /\ HasFatalError(d)
    /\ d.FatalError.Type = ErrorTypeInvalidStructure

\* C4: a Parse call on a Document that already holds a token buffer does not
\* tokenize or parse again: it records a validation_error and returns nil.
C4_SecondParseRejected ==
  (op.name = "Parse" /\ prior.tokensSet) =>
    /\ pc = "returned"
    /\ ret = "nil"
    /\ HasErrors(d)
    /\ d.Errors[Len(d.Errors)].Type = ErrorTypeValidation

\* C5: Write fails at once on an unusable session: with Errors non-empty it
\* returns "" and Errors[0] and calls no Writer method; otherwise, with Nodes
\* nil, it returns "" and the 'parse was not called' error, again calling no
\* Writer method.
C5_WriteFailsImmediately ==
  op.name = "Write" =>
    /\ wr.called
    /\ HasErrors(d) => (wr.out = "" /\ wr.err = d.Errors[1] /\ wr.writer = <<>>)
    /\ (~HasErrors(d) /\ ~d.NodesSet) =>
         (wr.out = "" /\ wr.err = ErrNotParsed /\ wr.writer = <<>>)

C5_Witness ==
  /\ op.name = "Write"
  /\ Len(d.Errors) >= 2
  /\ d.Errors[1] # d.Errors[Len(d.Errors)]

\* a step that starts a new Parse, which builds a new Document
StartsParse == calls' # calls /\ op'.name = "Parse"

\* a step that is an exported AddError or AddFatalError call
ReportsError == calls' # calls /\ op'.name \in {"AddError", "AddFatalError"}

C6_Step ==
  /\ ~StartsParse =>
       /\ Len(d'.Errors) >= Len(d.Errors)
       /\ SubSeq(d'.Errors, 1, Len(d.Errors)) = d.Errors
       /\ \A n \in Len(d.Errors) + 1 .. Len(d'.Errors) : d'.Errors[n].File = d.Path
  /\ ReportsError =>
       /\ Len(d'.Errors) = Len(d.Errors) + 1
       /\ d'.Errors[Len(d'.Errors)] =
            NewParseError(op'.typ, IF op'.name = "AddError" THEN "reported" ELSE "fatal",
                          d.Path, ZeroPos, zeroToken, "cause")

\* C6: Errors is append-only during a parse: no step of the session removes,
\* replaces or reorders an entry, and every AddError or AddFatalError call
\* adds exactly one diagnostic, last, with File = Path and the position,
\* token and cause it was given.
C6_ErrorsAppendOnly == [][C6_Step]_vars

C6_Witness ==
  /\ op.name = "AddError"
  /\ Len(d.Errors) >= 2
  /\ d.Errors[1].Type # d.Errors[2].Type

FatalRecorded(doc) ==
  HasFatalError(doc) =>
    /\ HasErrors(doc)
    /\ \E n \in 1 .. Len(doc.Errors) : doc.Errors[n] = doc.FatalError

C7_Step ==
  /\ FatalRecorded(d) /\ FatalRecorded(d')
  /\ (calls' # calls /\ op'.name = "AddFatalError") =>
       /\ HasFatalError(d')
       /\ d'.FatalError = d'.Errors[Len(d'.Errors)]
       /\ Len(d'.Errors) = Len(d.Errors) + 1
  /\ (calls' # calls /\ op'.name = "AddError") => d'.FatalError = d.FatalError
  /\ (~StartsParse /\ HasFatalError(d)) => HasFatalError(d')

\* C7: in every Document state HasFatalError() implies HasErrors() and the
\* fatal error is an element of Errors: AddFatalError sets the slot and
\* appends the same diagnostic, AddError leaves the slot alone, and a fatal
\* mark once set stays set on that Document.
C7_FatalImpliesErrors == [][C7_Step]_vars

C7_Witness ==
  /\ op.name = "AddError"
  /\ HasFatalError(d)
  /\ d.FatalError # d.Errors[Len(d.Errors)]

\* C8: when the scanner is done, every line it read has its token in the
\* buffer, a line no line matcher accepts being kept as a plain-text token,
\* and each such line has produced one tokenization_error.
C8_UnlexableLineKept ==
  (pc = "parse" /\ steps = <<>>) =>
    /\ Len(d.tokens) = Len(scanned)
    /\ Cardinality({n \in 1 .. Len(d.Errors) : d.Errors[n].Type = ErrorTypeTokenization})
         = Cardinality({n \in 1 .. Len(scanned) : ~tokenize(scanned[n]).ok})

IsText(node, content) == node.type = "Text" /\ node.Content = content

\* the bullet family of a list item
BulletFamily(item) ==
  IF item.Bullet \in {"-", "+", "*"} THEN UnorderedList ELSE OrderedList

\* a Paragraph whose only child is Text(content)
IsParagraphOf(node, content) ==
  /\ node.type = "Paragraph"
  /\ Len(node.Children) = 1
  /\ IsText(node.Children[1], content)

IsListOf(node, kind, n) ==
  node.type = "List" /\ node.Kind = kind /\ Len(node.Items) = n

ThreeItems == <<"- a", "- b", "1. c">>
NestedItem == <<"- a", "  - b">>

\* the children sequence of a node of the block parser
ChildrenOf(node) ==
  CASE node.type = "List" -> node.Items
    [] node.type = "ListItem" -> node.Children
    [] node.type = "DescriptiveListItem" -> node.Details
    [] node.type = "FootnoteDefinition" -> node.Children
    [] node.type = "Headline" -> node.Children
    [] OTHER -> <<>>

\* P holds of every node of the trees ns, the nodes of the inline parser
\* left out
RECURSIVE EveryBlockNode(_, _)
EveryBlockNode(P(_), ns) ==
  \A n \in 1 .. Len(ns) : P(ns[n]) /\ EveryBlockNode(P, ChildrenOf(ns[n]))

OneBulletFamily(node) ==
  node.type = "List" =>
    \A m, n \in 1 .. Len(node.Items) :
      BulletFamily(node.Items[m]) = BulletFamily(node.Items[n])

\* C12: items at one indentation are grouped into one List only while
\* their bullet family stays the same: "- a", "- b", "1. c" give two
\* sibling Lists, an unordered one of 2 items and an ordered one of 1 item;
\* "- a" and the deeper "  - b" give one List of one item whose children
\* hold a nested List holding b.
C12_ListGrouping ==
  ParseReturned =>
    /\ EveryBlockNode(OneBulletFamily, d.Nodes)
    /\ scanned = ThreeItems =>
         /\ Len(d.Nodes) = 2
         /\ IsListOf(d.Nodes[1], UnorderedList, 2)
         /\ IsListOf(d.Nodes[2], OrderedList, 1)
    /\ scanned = NestedItem =>
         /\ Len(d.Nodes) = 1
         /\ IsListOf(d.Nodes[1], UnorderedList, 1)
         /\ LET item == d.Nodes[1].Items[1]
            IN /\ item.type = "ListItem"
               /\ Len(item.Children) = 2
               /\ IsParagraphOf(item.Children[1], "a")
               /\ IsListOf(item.Children[2], UnorderedList, 1)
               /\ Len(item.Children[2].Items[1].Children) = 1
               /\ IsParagraphOf(item.Children[2].Items[1].Children[1], "b")

C12_Witness ==
  /\ ParseReturned /\ ~panicked
  /\ scanned = ThreeItems
  /\ Len(d.Nodes) = 2
  /\ d.Nodes[2].type = "List" /\ d.Nodes[2].Kind = OrderedList

\* the nesting contexts the block parser has opened so far
OpenedContexts == {d.log[n] : n \in {m \in 1 .. Len(d.log) : d.log[m].ev = "open"}}

\* the stop closure of the context c, at the index k of the present buffer
ContextStops(c, k) ==
  IF c.kind = "list" THEN listStop(d, k, c.stop.lvl, c.stop.main, c.parent) = "stop"
  ELSE Stop(c.stop, d, k)

\* the tokens handed to a parser while the closure of an enclosing context
\* was true there
Overruns == {n \in 1 .. Len(d.log) : d.log[n].ev = "hand" /\ d.log[n].stops}

UnderHeadline == <<"** H", "- a", "** H">>
SecondBlankInItem == <<"[fn:1] a", "", "-">>

Events(ev) == {n \in 1 .. Len(d.log) : d.log[n].ev = ev}

\* the diagnostics parseOne has recorded for tokens no parser accepted
CoercionDiagnostics ==
  {n \in 1 .. Len(d.Errors) :
     /\ d.Errors[n].Type = ErrorTypeUnexpectedToken
     /\ d.Errors[n].Message = "could not parse token"}

CoercionAsClaimed ==
  /\ Cardinality(CoercionDiagnostics) = Cardinality(Events("coerce"))
  /\ \A n, m \in Events("coerce") : d.log[n].k = d.log[m].k => n = m
  /\ \A n \in Events("coerce") :
       \E m \in Events("retry") : m > n /\ d.log[m].k = d.log[n].k
  /\ \A n, m \in Events("retry") : d.log[n].k = d.log[m].k => n = m
  /\ \A n \in Events("retry") : d.log[n].consumed >= 1
  /\ Events("coerceFailed") = {}

\* C15: a token no parser accepts gets exactly one unexpected_token
\* diagnostic and one retry as a text token, the retry consumes at least one
\* token, and the coercion never fails, whatever token is in the buffer
C15_CoercionRetriesOnce == CoercionAsClaimed

\* the coercion is as claimed wherever every line and every re-tokenized
\* content is accepted by a line matcher
CoercionOfLexedTokens ==
  (\A n \in 1 .. Len(scanned) : ~Malformed(scanned[n])) => CoercionAsClaimed

\* a list that consumed nothing was coerced and retried
CoercionHappens ==
  /\ scanned = SecondBlankInItem
  /\ ParseReturned /\ ~panicked
  /\ Events("retry") # {}

NotNil(node) == node # NilNode

\* the top-level parseOne calls that gave a node
StepsWithNode == {n \in 1 .. Len(steps) : steps[n][3] # NilNode}

\* C16: a blank line consumes one token and gives no node, and no node
\* sequence the block parser builds (the root Nodes, the Children of a
\* FootnoteDefinition or ListItem, the Details of a DescriptiveListItem)
\* holds a nil entry
C16_NoNilNodes ==
  /\ \A n \in 1 .. Len(steps) : steps[n][3] = NilNode => steps[n][2] = 1
  /\ Len(nodes) = Cardinality(StepsWithNode)
  /\ EveryBlockNode(NotNil, nodes)
  /\ EveryBlockNode(NotNil, d.Nodes)

\* the sequences parseMany builds hold no nil entry: the root Nodes and the
\* Children of every FootnoteDefinition outside a list
RECURSIVE NoNilOutsideItems(_)
NoNilOutsideItems(ns) ==
  \A n \in 1 .. Len(ns) :
    /\ ns[n] # NilNode
    /\ ns[n].type \in {"FootnoteDefinition", "Headline"} => NoNilOutsideItems(ChildrenOf(ns[n]))

NoNilFromParseMany ==
  /\ \A n \in 1 .. Len(steps) : steps[n][3] = NilNode => steps[n][2] = 1
  /\ Len(nodes) = Cardinality(StepsWithNode)
  /\ NoNilOutsideItems(nodes)
  /\ NoNilOutsideItems(d.Nodes)

\* the line numbers tokenize stamped on the tokens of the buffer, in order:
\* those of the lines a line matcher accepted
RECURSIVE LexedLineNumbers(_, _)
LexedLineNumbers(lines, n) ==
  IF n > Len(lines) THEN <<>>
  ELSE (IF tokenize(lines[n]).ok THEN <<n - 1>> ELSE <<>>) \o LexedLineNumbers(lines, n + 1)

\* the source line of the token at index k
SourceLine(k) == LexedLineNumbers(scanned, 1)[k + 1]

Positioned(node) ==
  node.type \in {"List", "ListItem", "DescriptiveListItem", "FootnoteDefinition"}

SpanOrdered(node) == Positioned(node) => node.Pos.StartLine <= node.Pos.EndLine

\* the node a top-level parseOne call returned spans the tokens it consumed
SpansItsTokens(step) ==
  LET node == step[3]
  IN /\ node.Pos.StartLine = SourceLine(step[1])
     /\ node.Pos.EndLine = SourceLine(step[1] + step[2] - 1)
     /\ node.type = "List" => node.Items[1].Pos.StartLine = SourceLine(step[1])

\* C17: the Position of every List, ListItem, DescriptiveListItem and
\* FootnoteDefinition starts at the source line of its first token and ends
\* at the source line of its last consumed token, so StartLine <= EndLine
C17_PositionsSpanTokens ==
  (op.name = "Parse" /\ pc \in {"parse", "returned"}) =>
    /\ \A n \in 1 .. Len(steps) :
         steps[n][3].type \in {"List", "FootnoteDefinition"} => SpansItsTokens(steps[n])
    /\ EveryBlockNode(SpanOrdered, nodes)

\* a FootnoteDefinition starts at the line of its first token, read before
\* the token is re-tokenized
FootnoteStartsAtItsLine ==
  (op.name = "Parse" /\ pc \in {"parse", "returned"}) =>
    \A n \in 1 .. Len(steps) :
      steps[n][3].type = "FootnoteDefinition" =>
        steps[n][3].Pos.StartLine = SourceLine(steps[n][1])

\* the token tokenize made of the source line of the token at index k
SourceToken(k) == tokenize(scanned[SourceLine(k) + 1]).tok

\* the kind of the item that starts at index k, by its own bullet and content
OwnKind(k) == listKind(SourceToken(k)).kind

ItemTypeOf(kind) == IF kind = DescriptiveList THEN "DescriptiveListItem" ELSE "ListItem"

\* every token the top-level call consumed starts an item of the list: a
\* list line at the indentation of the first
EveryTokenAnItem(step) ==
  \A k \in step[1] .. (step[1] + step[2] - 1) :
    /\ isListToken(SourceToken(k))
    /\ SourceToken(k).lvl = SourceToken(step[1]).lvl

\* C18: every item of a List has, by its own bullet and its own content
\* (" :: " or not), the Kind of the List, and the node type of that kind
C18_ListHomogeneous ==
  (op.name = "Parse" /\ pc \in {"parse", "returned"}) =>
    \A n \in 1 .. Len(steps) :
      (steps[n][3].type = "List" /\ EveryTokenAnItem(steps[n])) =>
        /\ Len(steps[n][3].Items) = steps[n][2]
        /\ \A m \in 1 .. steps[n][2] :
             /\ OwnKind(steps[n][1] + m - 1) = steps[n][3].Kind
             /\ steps[n][3].Items[m].type = ItemTypeOf(OwnKind(steps[n][1] + m - 1))

\* what parseList does: the Kind is that of the first item, and every item
\* gets the node type of the List's Kind
ListKindIsFirstItems ==
  (op.name = "Parse" /\ pc \in {"parse", "returned"}) =>
    \A n \in 1 .. Len(steps) :
      (steps[n][3].type = "List" /\ EveryTokenAnItem(steps[n])) =>
        /\ Len(steps[n][3].Items) = steps[n][2]
        /\ steps[n][3].Kind = OwnKind(steps[n][1])
        /\ \A m \in 1 .. steps[n][2] :
             steps[n][3].Items[m].type = ItemTypeOf(steps[n][3].Kind)

\* two descriptive items make one descriptive List
DescriptiveRun ==
  /\ scanned = <<"- a :: b", "- c :: d">>
  /\ ParseReturned /\ ~panicked
  /\ Len(d.Nodes) = 1
  /\ d.Nodes[1].Kind = DescriptiveList /\ Len(d.Nodes[1].Items) = 2

\* C24: parseListItem returns with baseLvl at the value it had on entry,
\* for plain and descriptive items at any depth, so that baseLvl is 0
\* between the top-level parseOne calls and after a parse that did not panic
C24_BaseLvlRestored ==
  /\ \A n \in Events("left") : d.log[n].baseLvl = d.log[n].entered
  /\ ~panicked => d.baseLvl = 0

\* a list inside a list item and a descriptive item have been parsed: the
\* inner item was entered with the baseLvl of the outer one
C24_Witness ==
  /\ ParseReturned /\ ~panicked
  /\ scanned \in {NestedItem, <<"- a :: b", "- c :: d">>}
  /\ Cardinality(Events("left")) = 2
  /\ scanned = NestedItem => \E n \in Events("left") : d.log[n].entered # 0

\* a checkbox marker at the very beginning of s: <<status>>, else <<>>
MarkerStatus(s) ==
  IF Len(s) >= 4 /\ Char(s, 0) = "[" /\ Char(s, 1) \in {" ", "X", "-"}
     /\ Char(s, 2) = "]" /\ IsSpace(Char(s, 3))
  THEN <<Char(s, 1)>>
  ELSE <<>>

\* a counter marker at the very beginning of s: <<value, length>>, else <<>>
MarkerValue(s) ==
  LET e == SkipSet(s, 2, Digits)
  IN IF HasPrefix(s, "[@") /\ e > 2 /\ e + 1 < Len(s) /\ Char(s, e) = "]"
        /\ IsSpace(Char(s, e + 1))
     THEN <<Slice(s, 2, e), e + 2>>
     ELSE <<>>

\* the item of the one-line document line has the status, the value and the
\* body the claim gives it: the markers are read at the beginning of the
\* content only, and only they are removed
ItemAsClaimed(line, item) ==
  LET t == tokenize(line).tok
      v == IF t.kind = "orderedList" THEN MarkerValue(t.content) ELSE <<>>
      content1 == IF v # <<>> THEN SliceFrom(t.content, v[2]) ELSE t.content
      s == MarkerStatus(content1)
      content2 == IF s # <<>> THEN SliceFrom(content1, 4) ELSE content1
      body == tokenize(Spaces(t.lvl + Len(M(t, 2))) \o content2).tok
  IN /\ item.Value = (IF v # <<>> THEN v[1] ELSE "")
     /\ item.Status = (IF s # <<>> THEN s[1] ELSE "")
     /\ (body.kind = "text" /\ body.content # "") =>
          /\ Len(item.Children) = 1
          /\ item.Children[1].type = "Paragraph"
          /\ item.Children[1].Children = parseInline(d.cfg, body.content)

\* a one-line document that is a plain list item has been parsed
OneItemParsed ==
  /\ ParseReturned /\ ~panicked
  /\ Len(scanned) = 1 /\ tokenize(scanned[1]).ok
  /\ isListToken(tokenize(scanned[1]).tok)
  /\ Len(d.Nodes) = 1 /\ d.Nodes[1].type = "List"
  /\ Len(d.Nodes[1].Items) = 1 /\ d.Nodes[1].Items[1].type = "ListItem"

\* C23: the status and the counter value of an item come only from a marker
\* at the very beginning of its content, exactly that marker is removed, and
\* a content that does not begin with a marker reaches the body unchanged
C23_MarkersOnlyAtStart ==
  OneItemParsed => ItemAsClaimed(scanned[1], d.Nodes[1].Items[1])

\* no marker stands later in the content than its beginning
MarkersLeadOrAbsent(content) ==
  /\ listItemValueMatch(content) # <<>> => MarkerValue(content) # <<>>
  /\ listItemStatusMatch(content) # <<>> =>
       \/ MarkerStatus(content) # <<>>
       \/ /\ MarkerValue(content) # <<>>
          /\ MarkerStatus(SliceFrom(content, MarkerValue(content)[2])) # <<>>

\* where the markers stand at the beginning or not at all, the item is as
\* the claim says
MarkersAtStartAsClaimed ==
  (OneItemParsed /\ MarkersLeadOrAbsent(tokenize(scanned[1]).tok.content)) =>
    ItemAsClaimed(scanned[1], d.Nodes[1].Items[1])

\* an item with checkbox and counter at the beginning has been parsed
MarkersRead ==
  /\ OneItemParsed /\ scanned = <<"1. [@2] [X] a">>
  /\ d.Nodes[1].Items[1].Value = "2" /\ d.Nodes[1].Items[1].Status = "X"

-----------------------------------------------------------------------------
(* Properties of the inline parser.                                        *)

\* an Emphasis of kind "*" whose content is Text("bold")
IsBold(node) ==
  /\ node.type = "Emphasis"
  /\ node.Kind = "*"
  /\ Len(node.Content) = 1
  /\ IsText(node.Content[1], "bold")

HasEmphasis(ns) == \E n \in 1 .. Len(ns) : ns[n].type = "Emphasis"

\* C9 as stated: in "quoted*bold*text", quotes included, *bold* is recognised
\* as an Emphasis of kind "*" with content Text("bold"), the text before and
\* after it emitted as Text nodes.
C9_QuotedTextBoldIsEmphasis ==
  (iout.called /\ icfg = New /\ itext = QuotedBoldText) =>
    /\ Len(iout.nodes) = 3
    /\ IsText(iout.nodes[1], "\"quoted")
    /\ IsBold(iout.nodes[2])
    /\ IsText(iout.nodes[3], "text\"")

\* C9, amended: "quoted*bold*text" is one Text node and holds no Emphasis,
\* the letter before the opening marker being no pre-character; with the
\* markers next to the quotes, "*bold*", *bold* is an Emphasis of kind "*"
\* with content Text("bold") between two Text nodes holding the quotes.
C9_BoldNeedsQuoteBeforeMarker ==
  (iout.called /\ icfg = New) =>
    /\ itext = QuotedBoldText =>
         (Len(iout.nodes) = 1 /\ IsText(iout.nodes[1], QuotedBoldText))
    /\ itext = QuotedBold =>
         /\ Len(iout.nodes) = 3
         /\ IsText(iout.nodes[1], "\"")
         /\ IsBold(iout.nodes[2])
         /\ IsText(iout.nodes[3], "\"")

C9_Witness ==
  /\ iout.called /\ icfg = New /\ itext = QuotedBold
  /\ HasEmphasis(iout.nodes)

\* the characters the claim allows before an opening marker
ClaimPreChars == {"-", "(", "{", "'", "\""}
\* the closing punctuation allowed after a closing marker
ClaimPostChars == {"-", ".", ",", ":", "!", "?", ";", "'", "\"", ")", "}", "[", "\\"}

ClaimOpens(inp, k) ==
  /\ k = 0 \/ IsSpace(Char(inp, k - 1)) \/ Char(inp, k - 1) \in ClaimPreChars
  /\ ~(k + 1 < Len(inp) /\ IsSpace(Char(inp, k + 1)))

NewLinesBetween(inp, k, j) ==
  Cardinality({n \in k + 1 .. j - 1 : Char(inp, n) = "\n"})

ClaimCloses(cfg, inp, k, j) ==
  /\ Char(inp, j) = Char(inp, k)
  /\ ~IsSpace(Char(inp, j - 1))
  /\ j + 1 = Len(inp) \/ IsSpace(Char(inp, j + 1)) \/ Char(inp, j + 1) \in ClaimPostChars
  /\ NewLinesBetween(inp, k, j) <= cfg.MaxEmphasisNewLines

ClaimClosers(cfg, inp, k) ==
  {j \in k + 2 .. Len(inp) - 1 : ClaimCloses(cfg, inp, k, j)}

SetMin(S) == CHOOSE x \in S : \A y \in S : x <= y

EmphasisAsClaimed(cfg, inp, k, res) ==
  IF ClaimOpens(inp, k) /\ ClaimClosers(cfg, inp, k) # {}
  THEN /\ res.node.type = "Emphasis"
       /\ res.consumed = SetMin(ClaimClosers(cfg, inp, k)) + 1 - k
  ELSE res.consumed = 0 /\ res.node.type = "nil"

\* C10: the marker at byte i is recognised exactly when the character before
\* it is start-of-text, whitespace or one of - ( { ' " and the one after it
\* is no whitespace, a same marker at some j > i+1 follows a non-whitespace
\* character and is followed by end-of-text, whitespace or closing
\* punctuation, and at most MaxEmphasisNewLines newlines lie between; the
\* first such j closes it; a*b*c holds no Emphasis.
C10_EmphasisExactlyWhen ==
  /\ emph.called => EmphasisAsClaimed(icfg, itext, emph.start, emph.res)
  /\ (iout.called /\ itext = LettersAdjacent) => ~HasEmphasis(iout.nodes)

\* The same on texts every byte of which decodes: there the marker is
\* recognised exactly as C10 says.
EmphasisOnDecodableText ==
  Index(itext, Bad) = -1 => C10_EmphasisExactlyWhen

-----------------------------------------------------------------------------
(* Properties of the loop of parseInlineWithPos.                           *)

ScanDone == scan.on /\ scan.done

\* the stepwise loop returns what parseInline computes
ScanAgreesWithParseInline ==
  ScanDone => scan.nodes = parseInlineWithPos(icfg, itext, scan.startLine,
                                              scan.startColumn)

ClaimSchemes == {"http", "https", "ftp", "file"}

\* the bytes that start a sub-scanner
TriggerBytes == {"^", "_", "@", "*", "/", "+", "=", "~", "{", ":", "\\", "$"}

\* where the maximal run of letters that ends before index c starts
RECURSIVE ClaimRunStart(_, _)
ClaimRunStart(t, c) ==
  IF c > 0 /\ IsLetter(Char(t, c - 1)) THEN ClaimRunStart(t, c - 1) ELSE c

\* where the maximal run of valid-URL characters from index k on ends
RECURSIVE ClaimUrlEnd(_, _)
ClaimUrlEnd(t, k) ==
  IF k < Len(t) /\ ContainsRune(ValidURLCharacters, Char(t, k))
  THEN ClaimUrlEnd(t, k + 1)
  ELSE k

IsAutoLink(node) == node.type = "RegularLink" /\ node.AutoLink

\* nodes, or the content of an Emphasis among them, hold an auto link
RECURSIVE AnyAutoLink(_)
AnyAutoLink(ns) ==
  \E n \in 1 .. Len(ns) :
    \/ IsAutoLink(ns[n])
    \/ ns[n].type = "Emphasis" /\ AnyAutoLink(ns[n].Content)

\* the first :// of the text, at c, with nothing but plain bytes and
\* newlines before it: the link the claim describes, or no link
AutoLinkAsClaimed(t, c) ==
  LET ps == ClaimRunStart(t, c)
      ue == ClaimUrlEnd(t, c + 3)
      scheme == Slice(t, ps, c)
      links == {n \in 1 .. Len(scan.covers) :
                  IsAutoLink(scan.covers[n].node) /\ scan.covers[n].from <= c
                  /\ c < scan.covers[n].to}
  IN IF scheme \in ClaimSchemes /\ ue > c + 3
     THEN \E n \in 1 .. Len(scan.covers) :
            /\ scan.covers[n] =
                 Cover(ps, ue, RegularLink(scheme, <<>>, Slice(t, ps, ue), TRUE,
                                           positionFromChars(t, 0, 0, ps, ue)))
            /\ ps > 0 => /\ n > 1
                         /\ scan.covers[n - 1].to = ps
                         /\ scan.covers[n - 1].node.type = "Text" =>
                              scan.covers[n - 1].node.Content =
                                Slice(t, scan.covers[n - 1].from, ps)
            /\ ue < Len(t) => /\ n < Len(scan.covers)
                              /\ scan.covers[n + 1].from = ue
     ELSE scheme \notin ClaimSchemes => links = {}

PlainBefore(t, c) == \A k \in 0 .. (c - 1) : Char(t, k) \notin TriggerBytes

\* C11: with auto-linking on, a :// that follows a maximal run of letters
\* which is exactly http, https, ftp or file, and that at least one
\* valid-URL character follows, gives a RegularLink with AutoLink = true,
\* Protocol = the scheme and URL = scheme, ://, the maximal run of valid-URL
\* characters; the text before the scheme is emitted without the scheme
\* letters, wherever the scheme starts; a longer letter run gives no link,
\* and with auto-linking off no auto link is produced at all.
C11_AutoLinkRecognised ==
  ScanDone =>
    /\ ~icfg.AutoLink => ~AnyAutoLink(scan.nodes)
    /\ (icfg.AutoLink /\ Index(itext, "://") # -1 /\ PlainBefore(itext, Index(itext, "://")))
         => AutoLinkAsClaimed(itext, Index(itext, "://"))
    /\ (icfg.AutoLink /\ itext = SeeLink) =>
         /\ Len(scan.nodes) = 3
         /\ IsText(scan.nodes[1], "see ")
         /\ IsAutoLink(scan.nodes[2])
         /\ scan.nodes[2].Protocol = "https"
         /\ scan.nodes[2].URL = "https://example.com/x"
         /\ IsText(scan.nodes[3], " here")
    /\ (icfg.AutoLink /\ itext = LongerRun) => ~AnyAutoLink(scan.nodes)

\* The same where the scheme does not start at index 1 of the text: there
\* the auto link is recognised exactly as C11 says.
AutoLinkAwayFromIndexOne ==
  (Index(itext, "://") # -1 /\ ClaimRunStart(itext, Index(itext, "://")) = 1)
  \/ C11_AutoLinkRecognised

RECURSIVE Join(_, _)
Join(parts, sep) ==
  IF Len(parts) = 0 THEN ""
  ELSE IF Len(parts) = 1 THEN parts[1]
  ELSE parts[1] \o sep \o Join(Tail(parts), sep)

RECURSIVE NewLines(_)
NewLines(n) == IF n <= 0 THEN "" ELSE "\n" \o NewLines(n - 1)

\* the text of the construct a node of the inline parser represents
RECURSIVE NodeSource(_)
RECURSIVE NodesSource(_)
NodeSource(node) ==
  CASE node.type = "Text" -> node.Content
    [] node.type = "LineBreak" -> NewLines(node.Count)
    [] node.type = "Emphasis" ->
         IF Len(node.Kind) = 3
         THEN Char(node.Kind, 0) \o "{" \o NodesSource(node.Content) \o "}"
         ELSE node.Kind \o NodesSource(node.Content) \o node.Kind
    [] node.type = "RegularLink" -> node.URL
    [] node.type = "Macro" ->
         "{{{" \o node.Name \o "(" \o Join(node.Parameters, ",") \o ")}}}"
    [] node.type = "InlineBlock" ->
         IF node.Name = "src"
         THEN "src_" \o Join(node.Parameters, " ") \o "{" \o NodesSource(node.Children) \o "}"
         ELSE "@@" \o Join(node.Parameters, " ") \o ":" \o NodesSource(node.Children) \o "@@"
    [] node.type = "LatexFragment" ->
         node.OpeningPair \o NodesSource(node.Content) \o node.ClosingPair
    [] node.type = "ExplicitLineBreak" -> "\\\\\n"

NodesSource(ns) ==
  IF Len(ns) = 0 THEN "" ELSE NodeSource(ns[1]) \o NodesSource(Tail(ns))

ClaimsItsConstruct(cover) ==
  Slice(itext, cover.from, cover.to) = NodeSource(cover.node)

\* C19: the bytes a sub-scanner claims at the cursor, text[p, p + consumed),
\* are the text of the construct its node represents: the pattern matches
\* at p, not later in the text, so no plain text between a trigger and a
\* later macro, inline source block or export snippet is swallowed into
\* that construct's node.
C19_MatchStartsAtCursor ==
  scan.on =>
    \A n \in 1 .. Len(scan.covers) :
      (scan.covers[n].from >= 0 /\ scan.covers[n].to <= Len(itext))
      /\ ClaimsItsConstruct(scan.covers[n])

CoversPartition(covers, upTo) ==
  /\ \A n \in 1 .. Len(covers) : covers[n].from < covers[n].to
  /\ Len(covers) > 0 => covers[1].from = 0 /\ covers[Len(covers)].to = upTo
  /\ Len(covers) = 0 => upTo = 0
  /\ \A n \in 1 .. (Len(covers) - 1) : covers[n + 1].from = covers[n].to

\* C20: the scan terminates (it takes no more turns than the text has
\* bytes) and keeps 0 <= previous <= current <= len(text) at every turn,
\* also right after a rewind; a match advances the cursor by
\* consumed - rewind > 0; the Text nodes and the spans of the other nodes
\* cover the text in order, every byte once.
C20_ScanPartitionsText ==
  scan.on =>
    /\ 0 <= scan.previous /\ scan.previous <= scan.current
    /\ scan.current <= Len(itext)
    /\ scan.last.previous <= scan.last.rewound
    /\ scan.last.consumed # 0 => scan.last.consumed - scan.last.rewind > 0
    /\ scan.turns <= scan.current
    /\ CoversPartition(scan.covers, IF scan.done THEN Len(itext) ELSE scan.previous)

\* Where every match starts at the cursor the scan is as C20 says.
ScanPartitionsWhenAnchored ==
  C19_MatchStartsAtCursor => C20_ScanPartitionsText

\* the scan of a text without newlines is over
OneLineScanned == ScanDone /\ Index(itext, "\n") = -1

\* the Position the claim gives the node of a cover
SpanOnTheLine(cover) ==
  Position(scan.startLine, scan.startColumn + cover.from,
           scan.startLine, scan.startColumn + cover.to)

\* C21: for a text without newlines every top-level node is on the line
\* startLine, from startColumn + the offset of its first byte to
\* startColumn + the offset past its last byte, so the spans of
\* consecutive nodes abut and the last one ends at startColumn + len(text)
C21_SpansOnOneLine ==
  OneLineScanned =>
    /\ \A n \in 1 .. Len(scan.covers) :
         scan.covers[n].node.type # "nil" =>
           scan.covers[n].node.Pos = SpanOnTheLine(scan.covers[n])
    /\ \A n \in 1 .. (Len(scan.nodes) - 1) :
         scan.nodes[n].Pos.EndColumn = scan.nodes[n + 1].Pos.StartColumn
    /\ Len(scan.nodes) > 0 =>
         scan.nodes[Len(scan.nodes)].Pos.EndColumn = scan.startColumn + Len(itext)

Min(a, b) == IF a < b THEN a ELSE b

\* what the code gives: an auto link is placed as if startLine and
\* startColumn were 0, an inline source block ends 3 columns late (at most
\* at the end of the text), every other node is where the claim says
SpanInTheCode(cover) ==
  CASE cover.node.type = "RegularLink" -> Position(0, cover.from, 0, cover.to)
    [] cover.node.type = "InlineBlock" /\ cover.node.Name = "src" ->
         Position(scan.startLine, scan.startColumn + cover.from,
                  scan.startLine, scan.startColumn + Min(cover.to + 3, Len(itext)))
    [] OTHER -> SpanOnTheLine(cover)

SpansOfTheCode ==
  (OneLineScanned /\ C19_MatchStartsAtCursor) =>
    \A n \in 1 .. Len(scan.covers) :
      scan.covers[n].node.type # "nil" =>
        scan.covers[n].node.Pos = SpanInTheCode(scan.covers[n])

\* the nodes of the LaTeX fragments the scan read, in the order of the text
FragmentCovers == SelectSeq(scan.covers, LAMBDA cover : cover.node.type = "LatexFragment")

\* OpeningPair + the raw text of Content + ClosingPair is what was consumed
FragmentRoundTrip(cover) ==
  cover.node.OpeningPair \o NodesSource(cover.node.Content) \o cover.node.ClosingPair
    = Slice(itext, cover.from, cover.to)

IsEnvironment(cover) == HasPrefix(cover.node.OpeningPair, "\\begin{")

\* the environments of a text as the claim reads them: a \begin{X} closes at
\* the first \end{X} after it, and the next environment starts after that
EnvironmentAt(t, b, e, closing, c) ==
  [OpeningPair |-> Slice(t, b, e + 1), Body |-> Slice(t, e + 1, c), ClosingPair |-> closing,
   from |-> b, to |-> c + Len(closing)]

RECURSIVE EnvironmentsFrom(_, _)
EnvironmentClosed(t, b, e, closing, c) ==
  IF e > b + 7 /\ e < Len(t) /\ Char(t, e) = "}" /\ c # -1
  THEN <<EnvironmentAt(t, b, e, closing, c)>> \o EnvironmentsFrom(t, c + Len(closing))
  ELSE EnvironmentsFrom(t, b + 1)

EnvironmentNamed(t, b, e, closing) ==
  EnvironmentClosed(t, b, e, closing, IndexFrom(t, closing, e))

EnvironmentOpened(t, b, e) ==
  EnvironmentNamed(t, b, e, "\\end{" \o Slice(t, b + 7, e) \o "}")

EnvironmentBegun(t, b) ==
  IF b = -1 THEN <<>> ELSE EnvironmentOpened(t, b, SkipSet(t, b + 7, WordChars))

EnvironmentsFrom(t, p) == EnvironmentBegun(t, IndexFrom(t, "\\begin{", p))

EnvironmentOf(cover) ==
  [OpeningPair |-> cover.node.OpeningPair, Body |-> NodesSource(cover.node.Content),
   ClosingPair |-> cover.node.ClosingPair, from |-> cover.from, to |-> cover.to]

EnvironmentsRead ==
  [n \in 1 .. Len(SelectSeq(FragmentCovers, IsEnvironment)) |->
     EnvironmentOf(SelectSeq(FragmentCovers, IsEnvironment)[n])]

\* C22: for every LatexFragment node OpeningPair + the raw text of Content +
\* ClosingPair is exactly the bytes the node consumed, and the fragments of
\* the form \begin{X}...\end{X} are the environments of the text, one
\* fragment per environment with only its own body as Content.
C22_FragmentsAreTheirBytes ==
  ScanDone =>
    /\ \A n \in 1 .. Len(FragmentCovers) : FragmentRoundTrip(FragmentCovers[n])
    /\ EnvironmentsRead = EnvironmentsFrom(itext, 0)

\* the fragments between $, $$, \( and \[ pairs are the bytes they consumed
PairFragmentsAreTheirBytes ==
  ScanDone =>
    \A n \in 1 .. Len(FragmentCovers) :
      ~IsEnvironment(FragmentCovers[n]) => FragmentRoundTrip(FragmentCovers[n])

\* a text with at most one \end{ is read as the claim says
OneEnvironmentAsClaimed ==
  (ScanDone /\ Len(EnvironmentsFrom(itext, 0)) <= 1
            /\ (Index(itext, "\\end{") = -1
                \/ IndexFrom(itext, "\\end{", Index(itext, "\\end{") + 1) = -1)) =>
    /\ \A n \in 1 .. Len(FragmentCovers) : FragmentRoundTrip(FragmentCovers[n])
    /\ EnvironmentsRead = EnvironmentsFrom(itext, 0)

\* what the code gives instead: the fragment ends at the first \end{X} of
\* the opening name, its Content runs to the last \end{ of the text, and it
\* is only read when that last \end{ bears the opening name
EnvironmentsOfTheCode ==
  ScanDone =>
    \A n \in 1 .. Len(FragmentCovers) :
      IsEnvironment(FragmentCovers[n]) =>
        /\ latexFragmentMatch(SliceFrom(itext, FragmentCovers[n].from))[2]
             = latexFragmentMatch(SliceFrom(itext, FragmentCovers[n].from))[4]
        /\ NodesSource(FragmentCovers[n].node.Content)
             = latexFragmentMatch(SliceFrom(itext, FragmentCovers[n].from))[3]
        /\ FragmentCovers[n].to - FragmentCovers[n].from
             = Index(SliceFrom(itext, FragmentCovers[n].from),
                     FragmentCovers[n].node.ClosingPair)
               + Len(FragmentCovers[n].node.ClosingPair)

\* the scan of a text read its one environment
FragmentsRead ==
  /\ ScanDone
  /\ Len(EnvironmentsRead) = 1
  /\ Len(FragmentCovers) = 1

=============================================================================
